------------------------- MODULE OtaReceiverProofs -------------------------
(***************************************************************************)
(* The receiver keeps its promises for every value of the constants that   *)
(* OneRelease admits: any frames, any number and size of packages, blocks, *)
(* fragments and proofs, and a store that may refuse blocks and may or may *)
(* not survive a reboot.  The argument is the inductive invariant IInv:    *)
(* one lemma per action shows that the action keeps it, a START's under    *)
(* the proviso that the geometry it brings is not another than the one of  *)
(* a manifest that was accepted.  The refinement of the abstract transfer  *)
(* follows from it.                                                        *)
(***************************************************************************)
EXTENDS OneRelease, MerkleProofs

-----------------------------------------------------------------------------
(* Indices.                                                                  *)

LEMMA IndexIsNat == \A i \in Index : i \in Nat /\ i <= 65535
<1>1. U16 \in Nat /\ U16 <= 65536
  BY DEF U16
<1>. QED
  BY <1>1 DEF Index

LEMMA IndexMembers == 0 \in Index /\ kIndexManifest \in Index /\ kIndexManifest = 65535
<1>1. U16 \in Nat /\ U16 >= 65536
  BY DEF U16
<1>. QED
  BY <1>1 DEF Index, kIndexManifest

LEMMA MaxUnitIsNat == MaxUnit \in Nat
BY IndexIsNat, MaxUnitAssumption

LEMMA Remainder ==
  ASSUME NEW n \in Nat, NEW d \in Nat \ {0}
  PROVE  n % d \in 0..(d - 1) /\ (n < d => n % d = n)
BY SMT

LEMMA SixteenBits ==
  ASSUME NEW n \in Nat
  PROVE  n % U16 \in Index /\ (n < U16 => n % U16 = n)
<1>1. U16 \in Nat \ {0}
  BY DEF U16
<1> QED
  BY <1>1, Remainder DEF Index

LEMMA GeometryFields ==
  \A g \in Geometry : /\ g.block_size \in Index
                      /\ g.block_count \in Index
                      /\ g.payload_length \in Nat
BY DEF Geometry

\* request_next sends Done and completes the transfer only when no block is missing.
LEMMA CompletesWithNothingMissing ==
  ASSUME NEW sent, geometry' \in Geometry, request_next(sent), ~complete, complete'
  PROVE  manifest_ready' /\ Missing' = {}
<1>1. manifest_ready' /\ next_needed_block' = kIndexManifest
  BY DEF request_next
<1>2. SUFFICES ASSUME Missing' # {} PROVE FALSE
  BY <1>1
<1>3. geometry'.block_count \in Index
  BY GeometryFields
<1>4. \A i \in Missing' : i \in Nat /\ i < 65535
  <2>1. Missing' \subseteq 0..(geometry'.block_count - 1)
    BY DEF Missing, has_block
  <2>2. geometry'.block_count \in Nat /\ geometry'.block_count <= 65535
    BY <1>3, IndexIsNat
  <2> QED
    BY <2>1, <2>2
<1>5. \E i \in Missing' : \A j \in Missing' : i <= j
  BY <1>2, <1>4, LeastMember
<1>6. next_needed_block' \in Missing'
  BY <1>2, <1>5 DEF next_needed_block
<1> QED
  BY <1>1, <1>4, <1>6, IndexMembers

-----------------------------------------------------------------------------
(* The reassembler.                                                          *)

LEMMA ReassemblerFields ==
  ASSUME NEW cells, NEW re \in Reassembler(cells)
  PROVE  /\ re.total \in 0..MaxUnit /\ re.data \in Seq(cells) /\ re.active \in BOOLEAN
         /\ Len(re.data) <= re.total
         /\ Stopped(re) \in Reassembler(cells)
         /\ Stopped(re).data = re.data
<1>1. re \in [total : 0..MaxUnit, data : Seq(cells), active : BOOLEAN]
      /\ Len(re.data) <= re.total
  BY DEF Reassembler
<1> QED
  BY <1>1 DEF Reassembler, Stopped

LEMMA NewReassembler ==
  ASSUME NEW cells, NEW total \in 0..MaxUnit
  PROVE  Reset(total) \in Reassembler(cells) /\ Idle \in Reassembler(cells)
<1>1. <<>> \in Seq(cells) /\ Len(<<>>) = 0
  BY EmptySeq
<1>2. 0 \in 0..MaxUnit /\ 0 <= total
  BY MaxUnitIsNat
<1> QED
  BY <1>1, <1>2, MaxUnitIsNat DEF Reassembler, Reset, Idle

\* feed never fills more of the buffer than the unit's total.
LEMMA FedReassembler ==
  ASSUME NEW cells, NEW re \in Reassembler(cells), NEW f,
         f.data \in Seq(cells), f.off \in Nat
  PROVE  Fed(re, f) \in Reassembler(cells)
<1>1. re \in [total : 0..MaxUnit, data : Seq(cells), active : BOOLEAN]
      /\ Len(re.data) <= re.total
  BY DEF Reassembler
<1>2. CASE ~Fits(re, f)
  BY <1>2 DEF Fed
<1>3. CASE Fits(re, f)
  <2>1. re.data \o f.data \in Seq(cells)
        /\ Len(re.data \o f.data) = Len(re.data) + Len(f.data)
    BY <1>1, ConcatProperties
  <2>2. Len(re.data) + Len(f.data) <= re.total
    BY <1>3 DEF Fits
  <2>3. Fed(re, f) = [re EXCEPT !.data = re.data \o f.data]
    BY <1>3 DEF Fed
  <2> QED
    BY <1>1, <2>1, <2>2, <2>3 DEF Reassembler
<1> QED
  BY <1>2, <1>3

\* What a reassembler holds is a unit frames can spell.
LEMMA ReassembledUnit ==
  ASSUME NEW cells, NEW re \in Reassembler(cells)
  PROVE  re.data \in Units(cells)
<1>1. /\ re.total \in 0..MaxUnit /\ re.data \in Seq(cells)
      /\ Len(re.data) <= re.total
  BY ReassemblerFields
<1>2. Len(re.data) \in 0..MaxUnit /\ re.data \in [1..Len(re.data) -> cells]
  BY <1>1, LenProperties, MaxUnitIsNat
<1> QED
  BY <1>2 DEF Units

-----------------------------------------------------------------------------
(* Frames.                                                                   *)

LEMMA FrameFields ==
  ASSUME NEW f \in Frames
  PROVE  /\ f.index \in Index /\ f.off \in Nat /\ f.total \in 0..MaxUnit
         /\ f.type = "Start" => f.data \in Seq(Geometry)
         /\ f.type = "Manifest" => f.data \in Seq(ManifestCells)
         /\ f.type = "Block" => f.data \in Seq(BlockCells)
         /\ f.type = "Proof" => f.data \in Seq(ProofCells)
<1>1. f \in Frame /\ f.total <= MaxUnit
  BY FramesAssumption
<1>2. /\ f.index \in Index /\ f.off \in Index /\ f.total \in Index
      /\ f.type = "Start" => f.data \in Seq(Geometry)
      /\ f.type = "Manifest" => f.data \in Seq(ManifestCells)
      /\ f.type = "Block" => f.data \in Seq(BlockCells)
      /\ f.type = "Proof" => f.data \in Seq(ProofCells)
  BY <1>1 DEF Frame, FrameOf
<1>3. f.off \in Index /\ f.total \in Index
  BY <1>2
<1>4. f.off \in Nat /\ f.total \in Nat
  BY <1>3, IndexIsNat
<1> QED
  BY <1>1, <1>2, <1>4, MaxUnitIsNat

-----------------------------------------------------------------------------
(* What a step keeps that leaves parts of the state alone.                    *)

\* A step after which the transfer is complete only because nothing is missing,
\* or was complete and changed nothing, keeps DoneMeansAll.
LEMMA KeepsDoneMeansAll ==
  ASSUME TypeOK', GeometryIsSigned', JournalIsSigned',
         complete' => manifest_ready' /\ Missing' = {}
  PROVE  DoneMeansAll'
<1> SUFFICES ASSUME complete'
             PROVE  /\ manifest_ready'
                    /\ DOMAIN store' = 0..(manifest'.block_count - 1)
                    /\ \A i \in DOMAIN store' : BlockOf(manifest', i, store'[i])
  BY DEF DoneMeansAll, BlockOf
<1>1. manifest_ready' /\ Missing' = {}
  OBVIOUS
<1>2. geometry' = GeometryOf(manifest')
  BY <1>1 DEF GeometryIsSigned, GeometryOf
<1>3. geometry'.block_count = manifest'.block_count
  BY <1>2 DEF GeometryOf
<1>4. 0..(manifest'.block_count - 1) \subseteq DOMAIN store'
  BY <1>1, <1>3 DEF Missing, has_block
<1>5. \A i \in DOMAIN store' : BlockOf(manifest', i, store'[i])
  BY <1>1 DEF JournalIsSigned, BlockOf
<1>6. manifest'.block_count \in Nat
  <2>1. geometry'.block_count \in Index
    BY GeometryFields DEF TypeOK
  <2> QED
    BY <1>3, <2>1, IndexIsNat
<1>7. \A i \in DOMAIN store' : i \in Nat /\ i < manifest'.block_count
  <2>1. \A i \in DOMAIN store' : i \in Index
    BY DEF TypeOK
  <2> QED
    BY <1>5, <2>1, IndexIsNat DEF BlockOf
<1>8. DOMAIN store' \subseteq 0..(manifest'.block_count - 1)
  BY SMT, <1>6, <1>7
<1>9. DOMAIN store' = 0..(manifest'.block_count - 1)
  BY <1>4, <1>8
<1> QED
  BY <1>1, <1>5, <1>9

\* A call that changes nothing but what it sends, and what it completes.
LEMMA KeepsInvariant ==
  ASSUME IInv,
         UNCHANGED <<geometryVars, manifestVars, unitVars, ready_blocks, proofs, store>>,
         aborted' \in BOOLEAN,
         complete' \in BOOLEAN,
         complete' => \/ UNCHANGED complete
                      \/ manifest_ready' /\ Missing' = {}
  PROVE  IInv'
<1> USE DEF geometryVars, manifestVars, unitVars
<1>1. TypeOK'
  BY DEF IInv, TypeOK
<1>2. WaitingUnits'
  BY DEF IInv, WaitingUnits
<1>3. EarlyJournal' /\ NoHalfForgotten'
  BY DEF IInv, EarlyJournal, NoHalfForgotten
<1>4. GeometryIsSigned'
  BY DEF IInv, GeometryIsSigned
<1>5. JournalIsSigned'
  BY DEF IInv, JournalIsSigned
<1>6. DoneMeansAll'
  <2>1. CASE UNCHANGED complete
    BY <2>1 DEF IInv, DoneMeansAll
  <2>2. CASE ~UNCHANGED complete
    BY <1>1, <1>4, <1>5, <2>2, KeepsDoneMeansAll DEF IInv, TypeOK
  <2> QED
    BY <2>1, <2>2
<1> QED
  BY <1>1, <1>2, <1>3, <1>4, <1>5, <1>6 DEF IInv

-----------------------------------------------------------------------------
(* Units.                                                                    *)

LEMMA UnitsAreSequences ==
  ASSUME NEW cells
  PROVE  Units(cells) \subseteq Seq(cells)
<1> SUFFICES ASSUME NEW u \in Units(cells) PROVE u \in Seq(cells)
  OBVIOUS
<1>1. PICK n \in 0..MaxUnit : u \in [1..n -> cells]
  BY DEF Units
<1>2. n \in Nat
  BY MaxUnitIsNat
<1>3. [1..n -> cells] \subseteq Seq(cells)
  BY <1>2, SeqDef
<1> QED
  BY <1>1, <1>3

LEMMA Quotient ==
  ASSUME NEW n \in Nat, NEW d \in Nat \ {0}
  PROVE  n \div d \in Nat /\ (n \div d) * d <= n
BY SMT

LEMMA Multiples ==
  ASSUME NEW k \in Nat \ {0}, NEW q \in Nat, NEW d \in Nat \ {0}, k <= q
  PROVE  /\ k * d \in Int /\ (k - 1) * d + 1 \in Int
         /\ 1 <= (k - 1) * d + 1
         /\ k * d <= q * d
BY SMT

LEMMA OneMultiple ==
  ASSUME NEW k \in Nat \ {0}, NEW d \in Nat
  PROVE  k * d - ((k - 1) * d + 1) + 1 = d
BY SMT

\* The digests of a proof unit are strings of its cells, and no cell is read beyond
\* its end.
LEMMA ProofsAreSequences == Proofs \subseteq Seq(Seq(ProofCells))
<1> SUFFICES ASSUME NEW buf \in Units(ProofCells)
             PROVE  SplitProof(buf) \in Seq(Seq(ProofCells))
  BY DEF Proofs
<1> DEFINE q == Len(buf) \div HashLen
<1>1. buf \in Seq(ProofCells)
  BY UnitsAreSequences
<1>2. /\ Len(buf) \in Nat
      /\ \A k \in 1..Len(buf) : buf[k] \in ProofCells
  BY <1>1, LenProperties, ElementOfSeq
<1>3. q \in Nat /\ q * HashLen <= Len(buf)
  BY <1>2, HashLenAssumption, Quotient
<1>4. ASSUME NEW k \in 1..q
      PROVE  SubSeq(buf, (k - 1) * HashLen + 1, k * HashLen) \in Seq(ProofCells)
  <2> DEFINE from == (k - 1) * HashLen + 1
             to == k * HashLen
  <2>1. k \in Nat \ {0} /\ k <= q
    BY <1>3
  <2>2. from \in Int /\ to \in Int /\ 1 <= from /\ to <= q * HashLen
    BY <2>1, <1>3, HashLenAssumption, Multiples
  <2>3. q * HashLen \in Int
    BY <1>3, HashLenAssumption
  <2> HIDE DEF from, to, q
  <2>4. \A j \in from..to : j \in 1..Len(buf)
    BY <1>2, <1>3, <2>2, <2>3
  <2>5. SubSeq(buf, from, to) \in Seq(ProofCells)
    BY <1>2, <2>2, <2>4, SubSeqProperties
  <2> QED
    BY <2>5 DEF from, to
<1>5. SplitProof(buf) = [k \in 1..q |-> SubSeq(buf, (k - 1) * HashLen + 1, k * HashLen)]
  BY DEF SplitProof
<1> HIDE DEF q
<1>6. SplitProof(buf) \in [1..q -> Seq(ProofCells)]
  BY <1>4, <1>5
<1> QED
  BY <1>3, <1>6, SeqDef

\* The digests of a proof unit have the length of a digest.
LEMMA ProofsAreDigests == \A pf \in Proofs : Digests(pf)
<1> SUFFICES ASSUME NEW buf \in Units(ProofCells)
             PROVE  Digests(SplitProof(buf))
  BY DEF Proofs
<1> DEFINE q == Len(buf) \div HashLen
           pf == SplitProof(buf)
<1>1. buf \in Seq(ProofCells) /\ Len(buf) \in Nat
  BY UnitsAreSequences
<1>2. q \in Nat /\ q * HashLen <= Len(buf)
  BY <1>1, HashLenAssumption, Quotient
<1>3. pf = [k \in 1..q |-> SubSeq(buf, (k - 1) * HashLen + 1, k * HashLen)]
  BY DEF SplitProof
<1>4. ASSUME NEW k \in 1..q PROVE IsDigest(pf[k])
  <2> DEFINE from == (k - 1) * HashLen + 1
             to == k * HashLen
             d == SubSeq(buf, from, to)
  <2>1. k \in Nat \ {0} /\ k <= q
    BY <1>2
  <2>2. from \in Int /\ to \in Int /\ 1 <= from /\ to <= q * HashLen
    BY <2>1, <1>2, HashLenAssumption, Multiples
  <2>3. q * HashLen \in Int /\ HashLen \in Nat
    BY <1>2, HashLenAssumption
  <2>4. to - from + 1 = HashLen
    BY <2>1, <2>3, OneMultiple
  <2>5. pf[k] = d
    BY <1>3
  <2> HIDE DEF from, to, q, pf
  <2>6. from <= to + 1 /\ \A j \in from..to : j \in 1..Len(buf)
    BY <1>1, <1>2, <2>2, <2>3, <2>4
  <2>7. d \in Seq(ProofCells) /\ Len(d) = HashLen
    BY <1>1, <2>2, <2>3, <2>4, <2>6, SubSeqProperties
  <2>8. d = [c \in 1..HashLen |-> d[c]]
    BY <2>7, LenProperties
  <2> QED
    BY <2>5, <2>8 DEF IsDigest
<1> HIDE DEF q, pf
<1>5. Len(pf) = q
  BY <1>2, <1>3
<1>6. pf = [k \in 1..q |-> pf[k]]
  BY <1>3
<1> QED
  BY <1>2, <1>4, <1>5, <1>6 DEF Digests, pf

\* The tree is sound: only block i of the signed payload verifies at index i under the
\* signed root, whatever the proof.
LEMMA MerkleIsSound ==
  ASSUME NEW m \in Signed, NEW b, NEW pf \in Proofs, NEW i \in 0..(m.block_count - 1),
         merkle_verify_block(b, i, m.block_count, pf, m.payload_merkle_root)
  PROVE  b = Payload[m][i + 1]
<1> DEFINE n == m.block_count
           leaves == [k \in 1..n |-> hash_leaf(Payload[m][k])]
<1>1. n \in Nat /\ n # 0 /\ i \in Nat /\ i + 1 \in 1..n
  BY ManifestAssumption
<1> HIDE DEF n
<1>2. Len(leaves) = n /\ leaves = [k \in 1..n |-> leaves[k]]
  BY <1>1
<1>3. \A k \in 1..n : IsDigest(leaves[k])
  BY ShaIsDigest DEF hash_leaf
<1> HIDE DEF leaves
<1>4. Digests(leaves) /\ leaves # <<>>
  BY <1>1, <1>2, <1>3, EmptyIsDigests DEF Digests
<1>5. merkle_verify(hash_leaf(b), i, Len(leaves), pf, merkle_root(leaves))
  BY <1>2, PayloadIsSigned DEF merkle_verify_block, n, leaves
<1>6. IsDigest(hash_leaf(b)) /\ Digests(pf)
  BY ShaIsDigest, ProofsAreDigests DEF hash_leaf
<1>7. hash_leaf(b) = leaves[i + 1]
  BY <1>1, <1>4, <1>5, <1>6, VerifyIsExactForAll
<1>8. leaves[i + 1] = hash_leaf(Payload[m][i + 1])
  BY <1>1 DEF leaves
<1> QED
  BY <1>7, <1>8, ShaIsInjective DEF hash_leaf

-----------------------------------------------------------------------------
(* What request_next leaves.                                                 *)

LEMMA RequestNextCompletes ==
  ASSUME NEW sent, geometry' \in Geometry, complete = FALSE, request_next(sent)
  PROVE  /\ complete' \in BOOLEAN
         /\ complete' => manifest_ready' /\ Missing' = {}
<1>1. complete' \in BOOLEAN
  BY DEF request_next
<1> QED
  BY <1>1, CompletesWithNothingMissing

-----------------------------------------------------------------------------
(* The actions, one by one.                                                  *)

LEMMA InvariantFields ==
  ASSUME IInv
  PROVE  /\ complete \in BOOLEAN /\ aborted \in BOOLEAN
         /\ geometry \in Geometry
BY DEF IInv, TypeOK

LEMMA IgnoreKeeps ==
  ASSUME IInv, Ignore
  PROVE  IInv'
BY KeepsInvariant, InvariantFields DEF Ignore

LEMMA HandleAbortKeeps ==
  ASSUME IInv, NEW f \in Frames, HandleAbort(f)
  PROVE  IInv'
<1>1. UNCHANGED <<geometryVars, manifestVars, unitVars, ready_blocks, proofs, store>>
      /\ aborted' = TRUE /\ UNCHANGED complete
  BY DEF HandleAbort, Silent
<1> QED
  BY <1>1, KeepsInvariant, InvariantFields

LEMMA PollKeeps ==
  ASSUME IInv, Poll
  PROVE  IInv'
<1>1. UNCHANGED <<geometryVars, manifestVars, unitVars, ready_blocks, proofs, aborted,
                  store>>
      /\ request_next(<<>>) /\ ~complete
  BY DEF Poll
<1>2. geometry' \in Geometry
  BY <1>1, InvariantFields DEF geometryVars
<1>3. complete = FALSE
  BY <1>1, InvariantFields
<1> QED
  BY <1>1, <1>2, <1>3, RequestNextCompletes, KeepsInvariant, InvariantFields

\* handle_start replaces the geometry: it keeps the invariant when what it takes is
\* still the signed geometry (no manifest yet, or hints that match it).
LEMMA HandleStartKeeps ==
  ASSUME IInv, NEW f \in Frames, HandleStart(f), GeometryIsSigned'
  PROVE  IInv'
<1>1. /\ f.session = Session /\ ~complete /\ f.type = "Start" /\ f.data # <<>>
      /\ have_geometry' = TRUE /\ geometry' = f.data[1]
      /\ UNCHANGED <<manifestVars, unitVars, ready_blocks, proofs, aborted, store>>
      /\ request_next(<<>>)
  BY DEF HandleStart, Hears
<1>2. geometry' \in Geometry
  <2>1. f.data \in Seq(Geometry)
    BY <1>1, FrameFields
  <2>2. 1 \in 1..Len(f.data)
    BY <1>1, <2>1, EmptySeq
  <2> QED
    BY <1>1, <2>1, <2>2, ElementOfSeq
<1>3. complete = FALSE
  BY <1>1, InvariantFields
<1>4. complete' \in BOOLEAN /\ (complete' => manifest_ready' /\ Missing' = {})
  BY <1>1, <1>2, <1>3, RequestNextCompletes
<1>5. TypeOK'
  BY <1>1, <1>2, <1>4 DEF IInv, TypeOK, manifestVars, unitVars
<1>6. WaitingUnits'
  BY <1>1 DEF IInv, WaitingUnits
<1>7. EarlyJournal' /\ NoHalfForgotten'
  BY <1>1 DEF IInv, EarlyJournal, NoHalfForgotten, manifestVars
<1>8. JournalIsSigned'
  BY <1>1 DEF IInv, JournalIsSigned, BlockOf, manifestVars
<1>9. DoneMeansAll'
  BY <1>4, <1>5, <1>8, KeepsDoneMeansAll
<1> QED
  BY <1>5, <1>6, <1>7, <1>8, <1>9 DEF IInv

\* The manifest unit's buffer after one of its fragments.
LEMMA ManifestBufferType ==
  ASSUME IInv, NEW f \in Frames, f.type = "Manifest"
  PROVE  Fed(ManifestBuffer(f), f) \in Reassembler(ManifestCells)
<1>1. ManifestBuffer(f) \in Reassembler(ManifestCells)
  <2>1. Reset(f.total) \in Reassembler(ManifestCells)
    BY FrameFields, NewReassembler
  <2>2. manifest_re \in Reassembler(ManifestCells)
    BY DEF IInv, TypeOK
  <2> QED
    BY <2>1, <2>2 DEF ManifestBuffer
<1> QED
  BY <1>1, FrameFields, FedReassembler

\* A manifest unit that is not accepted changes its own buffer only.
LEMMA ManifestUnitKeeps ==
  ASSUME IInv, NEW f \in Frames, f.type = "Manifest",
         manifest_re' = Fed(ManifestBuffer(f), f),
         UNCHANGED <<geometryVars, manifest_ready, manifest, unitVars, ready_blocks, proofs,
                     store, complete>>,
         aborted' \in BOOLEAN
  PROVE  IInv'
<1> USE DEF geometryVars, unitVars
<1>1. TypeOK'
  <2>1. manifest_re' \in Reassembler(ManifestCells)
    BY ManifestBufferType
  <2> QED
    BY <2>1 DEF IInv, TypeOK
<1>2. WaitingUnits' /\ EarlyJournal' /\ NoHalfForgotten'
  BY DEF IInv, WaitingUnits, EarlyJournal, NoHalfForgotten
<1>3. GeometryIsSigned' /\ JournalIsSigned' /\ DoneMeansAll'
  BY DEF IInv, GeometryIsSigned, JournalIsSigned, DoneMeansAll
<1> QED
  BY <1>1, <1>2, <1>3 DEF IInv

LEMMA ManifestFragmentKeeps ==
  ASSUME IInv, NEW f \in Frames, ManifestFragment(f) \/ RefuseManifest(f)
  PROVE  IInv'
<1>1. f.type = "Manifest"
  BY DEF ManifestFragment, RefuseManifest, WantsManifest, Hears
<1>2. CASE ManifestFragment(f)
  BY <1>1, <1>2, ManifestUnitKeeps, InvariantFields DEF ManifestFragment, Silent
<1>3. CASE RefuseManifest(f)
  BY <1>1, <1>3, ManifestUnitKeeps DEF RefuseManifest, Silent
<1> QED
  BY <1>2, <1>3

\* A manifest that is accepted is signed, and so is the geometry from then on: the
\* hints agree with it, or its own sizes fit 16 bits (SignedFits).
LEMMA TakeManifestKeeps ==
  ASSUME IInv, NEW f \in Frames, TakeManifest(f)
  PROVE  IInv'
<1> DEFINE re == Fed(ManifestBuffer(f), f)
           m == re.data[1]
<1>1. /\ ~complete /\ ~manifest_ready /\ f.type = "Manifest"
      /\ AcceptManifest(re.data)
      /\ geometry' = IF have_geometry THEN geometry ELSE TruncatedGeometryOf(m)
      /\ manifest' = m
      /\ manifest_re' = Stopped(re)
      /\ manifest_ready' = TRUE
      /\ UNCHANGED <<have_geometry, unitVars, ready_blocks, proofs, aborted, store>>
      /\ request_next(<<>>)
  BY DEF TakeManifest, WantsManifest, Hears
<1>2. re \in Reassembler(ManifestCells)
  BY <1>1, ManifestBufferType
<1> HIDE DEF re
<1>3. m \in Signed /\ (have_geometry => geometry = GeometryOf(m))
  BY <1>1 DEF AcceptManifest, VerifySignature, HintsAgree
<1>4. m \in Manifests /\ m.block_size \in Nat /\ m.block_count \in Nat
      /\ m.payload_length \in Nat /\ m.block_size < U16 /\ m.block_count < U16
  BY <1>3, ManifestAssumption, SignedFits
<1> HIDE DEF m
<1>5. TruncatedGeometryOf(m) = GeometryOf(m)
  BY <1>4, SixteenBits DEF TruncatedGeometryOf, GeometryOf
<1>6. geometry' = GeometryOf(m)
  BY <1>1, <1>3, <1>5
<1>7. geometry' \in Geometry
  <2>1. m.block_size % U16 = m.block_size /\ m.block_count % U16 = m.block_count
    BY <1>4, SixteenBits
  <2>2. m.block_size \in Index /\ m.block_count \in Index
    BY <1>4, <2>1, SixteenBits
  <2> QED
    BY <1>4, <1>6, <2>2 DEF Geometry, GeometryOf
<1>8. complete = FALSE
  BY <1>1, InvariantFields
<1>9. complete' \in BOOLEAN /\ (complete' => manifest_ready' /\ Missing' = {})
  BY <1>1, <1>7, <1>8, RequestNextCompletes
<1>10. TypeOK'
  <2>1. manifest_re' \in Reassembler(ManifestCells)
    BY <1>1, <1>2, ReassemblerFields
  <2> QED
    BY <1>1, <1>4, <1>7, <1>9, <2>1 DEF IInv, TypeOK, unitVars
<1>11. WaitingUnits' /\ NoHalfForgotten'
  BY <1>1 DEF IInv, WaitingUnits, NoHalfForgotten
<1>12. EarlyJournal'
  BY <1>1 DEF EarlyJournal
<1>13. GeometryIsSigned'
  BY <1>1, <1>3, <1>6 DEF GeometryIsSigned, GeometryOf
<1>14. JournalIsSigned'
  <2> SUFFICES ASSUME NEW i \in DOMAIN store
               PROVE  BlockOf(m, i, store[i])
    BY <1>1 DEF JournalIsSigned, BlockOf
  <2>1. Persistent
    BY <1>1 DEF IInv, EarlyJournal
  <2>2. PICK n \in Signed : BlockOf(n, i, store[i])
    BY <1>1 DEF IInv, JournalIsSigned
  <2>3. n = m
    BY <1>3, <2>1, OnePackagePerJournal
  <2> QED
    BY <2>2, <2>3
<1>15. DoneMeansAll'
  BY <1>9, <1>10, <1>13, <1>14, KeepsDoneMeansAll
<1> QED
  BY <1>10, <1>11, <1>12, <1>13, <1>14, <1>15 DEF IInv

\* The end of handle_block and handle_proof, when a unit is whole: blocks and pfs
\* are the maps with that unit in its place.
LEMMA TryFinishBlockKeeps ==
  ASSUME IInv, manifest_ready, complete = FALSE,
         NEW i \in Index, NEW blocks, NEW pfs,
         DOMAIN blocks \subseteq Index, DOMAIN pfs \subseteq Index,
         \A j \in DOMAIN blocks : blocks[j] \in Units(BlockCells),
         \A j \in DOMAIN pfs : pfs[j] \in Proofs,
         DOMAIN blocks \cap DOMAIN pfs \subseteq {i},
         (DOMAIN blocks \cup DOMAIN pfs) \cap DOMAIN store = {},
         TryFinishBlock(i, blocks, pfs),
         UNCHANGED <<geometryVars, manifestVars, aborted>>,
         block_re' \in Reassembler(BlockCells), block_in_flight' \in Index,
         proof_re' \in Reassembler(ProofCells), proof_in_flight' \in Index
  PROVE  IInv'
<1> USE DEF geometryVars, manifestVars
<1>1. GeometryIsSigned'
  BY DEF IInv, GeometryIsSigned
<1>2. manifest \in Signed /\ geometry.block_count = manifest.block_count
  BY DEF IInv, GeometryIsSigned, GeometryOf
<1>3. EarlyJournal'
  BY DEF EarlyJournal
<1>4. geometry' \in Geometry
  BY InvariantFields
<1>5. /\ DOMAIN ready_blocks' \subseteq DOMAIN blocks
      /\ DOMAIN proofs' \subseteq DOMAIN pfs
      /\ \A j \in DOMAIN ready_blocks' : ready_blocks'[j] = blocks[j]
      /\ \A j \in DOMAIN proofs' : proofs'[j] = pfs[j]
      /\ DOMAIN ready_blocks' \cap DOMAIN proofs' = {}
  <2>1. CASE i \notin DOMAIN blocks \cap DOMAIN pfs
    BY <2>1 DEF TryFinishBlock
  <2>2. CASE i \in DOMAIN blocks \cap DOMAIN pfs
    <3>1. ready_blocks' = Without(blocks, i) /\ proofs' = Without(pfs, i)
      BY <2>2 DEF TryFinishBlock
    <3> QED
      BY <3>1 DEF Without
  <2> QED
    BY <2>1, <2>2
<1>6. \/ store' = store
      \/ /\ i \in DOMAIN blocks \cap DOMAIN pfs
         /\ store' = With(store, i, blocks[i])
         /\ ready_blocks' = Without(blocks, i) /\ proofs' = Without(pfs, i)
         /\ merkle_verify_block(blocks[i], i, geometry.block_count, pfs[i],
                                manifest.payload_merkle_root)
  BY DEF TryFinishBlock, PutBlock
<1>7. ASSUME store' # store
      PROVE  BlockOf(manifest, i, blocks[i])
  <2>1. i < manifest.block_count
    BY <1>2, <1>6, <1>7 DEF merkle_verify_block, merkle_verify
  <2>2. manifest.block_count \in Nat /\ i \in Nat
    BY <1>2, ManifestAssumption, IndexIsNat
  <2>3. i \in 0..(manifest.block_count - 1)
    BY <2>1, <2>2
  <2>4. blocks[i] \in Units(BlockCells) /\ pfs[i] \in Proofs
    BY <1>6, <1>7
  <2>5. merkle_verify_block(blocks[i], i, manifest.block_count, pfs[i],
                            manifest.payload_merkle_root)
    BY <1>2, <1>6, <1>7
  <2>6. blocks[i] = Payload[manifest][i + 1]
    BY <1>2, <2>3, <2>4, <2>5, MerkleIsSound
  <2> QED
    BY <2>1, <2>6 DEF BlockOf
<1>8. JournalIsSigned'
  <2>1. \A j \in DOMAIN store : BlockOf(manifest, j, store[j])
    BY DEF IInv, JournalIsSigned
  <2>2. SUFFICES ASSUME NEW j \in DOMAIN store' PROVE BlockOf(manifest, j, store'[j])
    BY DEF JournalIsSigned, BlockOf
  <2>3. CASE store' = store
    BY <2>1, <2>3
  <2>4. CASE store' # store
    <3>1. store' = With(store, i, blocks[i])
      BY <1>6, <2>4
    <3>2. CASE j = i
      BY <1>7, <2>4, <3>1, <3>2 DEF With
    <3>3. CASE j # i
      BY <2>1, <3>1, <3>3 DEF With
    <3> QED
      BY <3>2, <3>3
  <2> QED
    BY <2>3, <2>4
<1>9. WaitingUnits'
  BY <1>5 DEF WaitingUnits
<1>10. NoHalfForgotten'
  <2>1. CASE store' = store
    BY <1>5, <2>1 DEF NoHalfForgotten
  <2>2. CASE store' # store
    <3>1. /\ DOMAIN store' = DOMAIN store \cup {i}
          /\ DOMAIN ready_blocks' = DOMAIN blocks \ {i}
          /\ DOMAIN proofs' = DOMAIN pfs \ {i}
      BY <1>6, <2>2 DEF With, Without
    <3> QED
      BY <1>5, <3>1 DEF NoHalfForgotten
  <2> QED
    BY <2>1, <2>2
<1>11. complete' \in BOOLEAN /\ (complete' => manifest_ready' /\ Missing' = {})
  <2>1. CASE UNCHANGED complete
    BY <2>1
  <2>2. CASE \E sent : request_next(sent)
    BY <1>4, <2>2, RequestNextCompletes
  <2> QED
    BY <2>1, <2>2 DEF TryFinishBlock, Silent
<1>12. TypeOK'
  <2>1. \A j \in DOMAIN ready_blocks' : j \in Index /\ ready_blocks'[j] \in Seq(BlockCells)
    BY <1>5, UnitsAreSequences
  <2>2. \A j \in DOMAIN proofs' : j \in Index /\ proofs'[j] \in Seq(Seq(ProofCells))
    BY <1>5, ProofsAreSequences
  <2>3. \A j \in DOMAIN store : j \in Index /\ store[j] \in Seq(BlockCells)
    BY DEF IInv, TypeOK
  <2>4. \A j \in DOMAIN store' : j \in Index /\ store'[j] \in Seq(BlockCells)
    <3>1. CASE store' = store
      BY <2>3, <3>1
    <3>2. CASE store' # store
      <4>1. store' = With(store, i, blocks[i]) /\ i \in DOMAIN blocks
        BY <1>6, <3>2
      <4>2. blocks[i] \in Seq(BlockCells)
        BY <4>1, UnitsAreSequences
      <4> QED
        BY <2>3, <4>1, <4>2 DEF With
    <3> QED
      BY <3>1, <3>2
  <2> QED
    BY <1>11, <2>1, <2>2, <2>4 DEF IInv, TypeOK
<1>13. DoneMeansAll'
  BY <1>1, <1>8, <1>11, <1>12, KeepsDoneMeansAll
<1> QED
  BY <1>1, <1>3, <1>8, <1>9, <1>10, <1>12, <1>13 DEF IInv

\* A fragment that leaves its unit unfinished, or finishes a proof of no whole
\* digests, changes that unit's buffer only.
LEMMA BufferKeeps ==
  ASSUME IInv,
         UNCHANGED <<geometryVars, manifestVars, ready_blocks, proofs, aborted, store,
                     complete>>,
         block_re' \in Reassembler(BlockCells), block_in_flight' \in Index,
         proof_re' \in Reassembler(ProofCells), proof_in_flight' \in Index
  PROVE  IInv'
<1> USE DEF geometryVars, manifestVars
<1>1. TypeOK'
  BY DEF IInv, TypeOK
<1>2. WaitingUnits' /\ EarlyJournal' /\ NoHalfForgotten'
  BY DEF IInv, WaitingUnits, EarlyJournal, NoHalfForgotten
<1>3. GeometryIsSigned' /\ JournalIsSigned' /\ DoneMeansAll'
  BY DEF IInv, GeometryIsSigned, JournalIsSigned, DoneMeansAll
<1> QED
  BY <1>1, <1>2, <1>3 DEF IInv

\* What waits, and what is in the buffers.
LEMMA UnitFields ==
  ASSUME IInv
  PROVE  /\ block_re \in Reassembler(BlockCells) /\ block_in_flight \in Index
         /\ proof_re \in Reassembler(ProofCells) /\ proof_in_flight \in Index
         /\ DOMAIN ready_blocks \subseteq Index /\ DOMAIN proofs \subseteq Index
         /\ \A j \in DOMAIN ready_blocks : ready_blocks[j] \in Units(BlockCells)
         /\ \A j \in DOMAIN proofs : proofs[j] \in Proofs
         /\ DOMAIN ready_blocks \cap DOMAIN proofs = {}
         /\ (DOMAIN ready_blocks \cup DOMAIN proofs) \cap DOMAIN store = {}
BY DEF IInv, TypeOK, WaitingUnits, NoHalfForgotten

LEMMA HandleBlockKeeps ==
  ASSUME IInv, NEW f \in Frames, HandleBlock(f)
  PROVE  IInv'
<1> DEFINE re == Fed(BlockBuffer(f), f)
           blocks == With(ready_blocks, f.index, re.data)
<1>1. /\ f.type = "Block" /\ ~complete /\ manifest_ready /\ ~has_block(f.index)
      /\ block_in_flight' = f.index
      /\ UNCHANGED <<geometryVars, manifestVars, proof_re, proof_in_flight, aborted>>
      /\ \/ /\ block_re' = re /\ UNCHANGED complete
            /\ UNCHANGED <<ready_blocks, proofs, store>>
         \/ /\ block_re' = Stopped(re)
            /\ TryFinishBlock(f.index, blocks, proofs)
  BY DEF HandleBlock, Hears, Silent
<1>2. f.index \in Index
  BY FrameFields
<1>3. re \in Reassembler(BlockCells)
  <2>1. BlockBuffer(f) \in Reassembler(BlockCells)
    <3>1. Reset(f.total) \in Reassembler(BlockCells)
      BY FrameFields, NewReassembler
    <3> QED
      BY <3>1, UnitFields DEF BlockBuffer
  <2> QED
    BY <1>1, <2>1, FrameFields, FedReassembler
<1> HIDE DEF re
<1>4. Stopped(re) \in Reassembler(BlockCells) /\ re.data \in Units(BlockCells)
  BY <1>3, ReassemblerFields, ReassembledUnit
<1>5. block_re' \in Reassembler(BlockCells) /\ block_in_flight' \in Index
      /\ proof_re' \in Reassembler(ProofCells) /\ proof_in_flight' \in Index
  BY <1>1, <1>2, <1>3, <1>4, UnitFields
<1>6. CASE UNCHANGED <<complete, ready_blocks, proofs, store>>
  BY <1>1, <1>5, <1>6, BufferKeeps
<1>7. CASE TryFinishBlock(f.index, blocks, proofs)
  <2>1. /\ DOMAIN blocks = DOMAIN ready_blocks \cup {f.index}
        /\ \A j \in DOMAIN blocks : blocks[j] \in Units(BlockCells)
    BY <1>4, UnitFields DEF With
  <2>2. f.index \notin DOMAIN store
    BY <1>1 DEF has_block
  <2> HIDE DEF blocks
  <2>3. /\ DOMAIN blocks \subseteq Index
        /\ DOMAIN blocks \cap DOMAIN proofs \subseteq {f.index}
        /\ (DOMAIN blocks \cup DOMAIN proofs) \cap DOMAIN store = {}
    BY <1>2, <2>1, <2>2, UnitFields
  <2>4. complete = FALSE
    BY <1>1, InvariantFields
  <2> QED
    BY <1>1, <1>2, <1>5, <1>7, <2>1, <2>3, <2>4, UnitFields, TryFinishBlockKeeps
<1> QED
  BY <1>1, <1>6, <1>7

\* A proof that is whole, the empty one or one that was fed.
LEMMA WholeProofKeeps ==
  ASSUME IInv, NEW i \in Index, NEW proof \in Proofs,
         manifest_ready, ~complete, ~has_block(i),
         TryFinishBlock(i, ready_blocks, With(proofs, i, proof)),
         UNCHANGED <<geometryVars, manifestVars, aborted>>,
         block_re' \in Reassembler(BlockCells), block_in_flight' \in Index,
         proof_re' \in Reassembler(ProofCells), proof_in_flight' \in Index
  PROVE  IInv'
<1> DEFINE pfs == With(proofs, i, proof)
<1>1. /\ DOMAIN pfs = DOMAIN proofs \cup {i}
      /\ \A j \in DOMAIN pfs : pfs[j] \in Proofs
  BY UnitFields DEF With
<1>2. i \notin DOMAIN store
  BY DEF has_block
<1>3. TryFinishBlock(i, ready_blocks, pfs)
  OBVIOUS
<1> HIDE DEF pfs
<1>4. /\ DOMAIN pfs \subseteq Index
      /\ DOMAIN ready_blocks \cap DOMAIN pfs \subseteq {i}
      /\ (DOMAIN ready_blocks \cup DOMAIN pfs) \cap DOMAIN store = {}
  BY <1>1, <1>2, UnitFields
<1>5. complete = FALSE
  BY InvariantFields
<1> QED
  BY <1>1, <1>3, <1>4, <1>5, UnitFields, TryFinishBlockKeeps

LEMMA EmptyProofKeeps ==
  ASSUME IInv, NEW f \in Frames, EmptyProof(f)
  PROVE  IInv'
<1>1. /\ ~complete /\ manifest_ready /\ ~has_block(f.index)
      /\ UNCHANGED <<geometryVars, manifestVars, unitVars, aborted>>
      /\ TryFinishBlock(f.index, ready_blocks, With(proofs, f.index, <<>>))
  BY DEF EmptyProof, Hears
<1>2. <<>> \in Proofs
  <2>1. <<>> \in Units(ProofCells)
    <3>1. <<>> \in Seq(ProofCells) /\ Len(<<>>) = 0
      BY EmptySeq
    <3>2. <<>> \in [1..0 -> ProofCells]
      BY <3>1, LenProperties
    <3>3. 0 \in 0..MaxUnit
      BY MaxUnitIsNat
    <3> QED
      BY <3>2, <3>3 DEF Units
  <2>2. SplitProof(<<>>) = <<>>
    <3>1. 0 \div HashLen = 0
      BY HashLenAssumption, SMT
    <3>2. Len(<<>>) = 0
      BY EmptySeq
    <3> QED
      BY <3>1, <3>2 DEF SplitProof
  <2> QED
    BY <2>1, <2>2 DEF Proofs
<1>3. block_re' \in Reassembler(BlockCells) /\ block_in_flight' \in Index
      /\ proof_re' \in Reassembler(ProofCells) /\ proof_in_flight' \in Index
  BY <1>1, UnitFields DEF unitVars
<1>4. f.index \in Index
  BY FrameFields
<1> QED
  BY <1>1, <1>2, <1>3, <1>4, WholeProofKeeps

LEMMA HandleProofKeeps ==
  ASSUME IInv, NEW f \in Frames, HandleProof(f)
  PROVE  IInv'
<1> DEFINE re == Fed(ProofBuffer(f), f)
<1>1. /\ f.type = "Proof" /\ ~complete /\ manifest_ready /\ ~has_block(f.index)
      /\ proof_in_flight' = f.index
      /\ UNCHANGED <<geometryVars, manifestVars, block_re, block_in_flight, aborted>>
      /\ proof_re' = re \/ proof_re' = Stopped(re)
      /\ \/ UNCHANGED <<complete, ready_blocks, proofs, store>>
         \/ TryFinishBlock(f.index, ready_blocks,
                           With(proofs, f.index, SplitProof(re.data)))
  BY DEF HandleProof, Hears, Silent
<1>2. f.index \in Index
  BY FrameFields
<1>3. re \in Reassembler(ProofCells)
  <2>1. ProofBuffer(f) \in Reassembler(ProofCells)
    <3>1. Reset(f.total) \in Reassembler(ProofCells)
      BY FrameFields, NewReassembler
    <3> QED
      BY <3>1, UnitFields DEF ProofBuffer
  <2> QED
    BY <1>1, <2>1, FrameFields, FedReassembler
<1> HIDE DEF re
<1>4. Stopped(re) \in Reassembler(ProofCells) /\ re.data \in Units(ProofCells)
  BY <1>3, ReassemblerFields, ReassembledUnit
<1>5. block_re' \in Reassembler(BlockCells) /\ block_in_flight' \in Index
      /\ proof_re' \in Reassembler(ProofCells) /\ proof_in_flight' \in Index
  BY <1>1, <1>2, <1>3, <1>4, UnitFields
<1>6. CASE UNCHANGED <<complete, ready_blocks, proofs, store>>
  BY <1>1, <1>5, <1>6, BufferKeeps
<1>7. CASE TryFinishBlock(f.index, ready_blocks,
                          With(proofs, f.index, SplitProof(re.data)))
  <2>1. SplitProof(re.data) \in Proofs
    BY <1>4 DEF Proofs
  <2> QED
    BY <1>1, <1>2, <1>5, <1>7, <2>1, WholeProofKeeps
<1> QED
  BY <1>1, <1>6, <1>7

\* What a constructor sets.
LEMMA NewValues ==
  /\ Idle \in Reassembler(ManifestCells)
  /\ Idle \in Reassembler(BlockCells)
  /\ Idle \in Reassembler(ProofCells)
  /\ kIndexManifest \in Index
  /\ NoGeometry \in Geometry
  /\ DOMAIN EmptyMap = {}
<1>1. 0 \in 0..MaxUnit
  BY MaxUnitIsNat
<1>2. NoGeometry \in Geometry
  BY IndexMembers DEF NoGeometry, Geometry
<1>3. DOMAIN EmptyMap = {}
  BY DEF EmptyMap
<1> QED
  BY <1>1, <1>2, <1>3, NewReassembler, IndexMembers

LEMMA InitIsGood == Init => IInv
<1> SUFFICES ASSUME Init PROVE IInv
  OBVIOUS
<1> USE DEF Init
<1>1. TypeOK
  BY NewValues DEF TypeOK
<1>2. WaitingUnits /\ NoHalfForgotten
  BY NewValues DEF WaitingUnits, NoHalfForgotten
<1>3. GeometryIsSigned /\ DoneMeansAll
  BY DEF GeometryIsSigned, DoneMeansAll
<1>4. EarlyJournal /\ JournalIsSigned
  BY NewValues DEF EarlyJournal, JournalIsSigned
<1> QED
  BY <1>1, <1>2, <1>3, <1>4 DEF IInv

LEMMA JournalFields ==
  ASSUME IInv
  PROVE  \A i \in DOMAIN store :
           /\ i \in Index /\ store[i] \in Seq(BlockCells)
           /\ \E m \in Signed : BlockOf(m, i, store[i])
<1>1. \A i \in DOMAIN store : i \in Index /\ store[i] \in Seq(BlockCells)
  BY DEF IInv, TypeOK
<1>2. \A i \in DOMAIN store : \E m \in Signed : BlockOf(m, i, store[i])
  BY DEF IInv, JournalIsSigned, GeometryIsSigned
<1> QED
  BY <1>1, <1>2

LEMMA RebootKeeps ==
  ASSUME IInv, Reboot
  PROVE  IInv'
<1> USE DEF Reboot
<1>1. DOMAIN store' = {} \/ (Persistent /\ store' = store)
  BY DEF StoreAfterReboot, EmptyMap
<1>2. \A i \in DOMAIN store' :
        /\ i \in Index /\ store'[i] \in Seq(BlockCells)
        /\ \E m \in Signed : BlockOf(m, i, store'[i])
  BY <1>1, JournalFields
<1>3. TypeOK'
  <2>1. DOMAIN store' \subseteq Index
    BY <1>2
  <2>2. \A i \in DOMAIN store' : store'[i] \in Seq(BlockCells)
    BY <1>2
  <2> QED
    BY <2>1, <2>2, NewValues DEF TypeOK
<1>4. WaitingUnits' /\ NoHalfForgotten'
  BY NewValues DEF WaitingUnits, NoHalfForgotten
<1>5. GeometryIsSigned' /\ DoneMeansAll'
  BY DEF GeometryIsSigned, DoneMeansAll
<1>6. EarlyJournal'
  BY <1>1 DEF EarlyJournal
<1>7. JournalIsSigned'
  BY <1>2 DEF JournalIsSigned, BlockOf
<1> QED
  BY <1>3, <1>4, <1>5, <1>6, <1>7 DEF IInv

\* A frame keeps the invariant that leaves the geometry the accepted manifest's.
LEMMA FrameKeeps ==
  ASSUME IInv, NEW f \in Frames, OnFrame(f), GeometryIsSigned'
  PROVE  IInv'
<1>1. CASE NotForUs(f)
  BY <1>1, IgnoreKeeps DEF NotForUs
<1>2. CASE HandleAbort(f)
  BY <1>2, HandleAbortKeeps
<1>3. CASE HandleStart(f)
  BY <1>3, HandleStartKeeps
<1>4. CASE HandleManifest(f)
  <2>1. CASE ManifestFragment(f) \/ RefuseManifest(f)
    BY <2>1, ManifestFragmentKeeps
  <2>2. CASE TakeManifest(f)
    BY <2>2, TakeManifestKeeps
  <2>3. CASE LateManifest(f)
    BY <2>3, IgnoreKeeps DEF LateManifest
  <2> QED
    BY <1>4, <2>1, <2>2, <2>3 DEF HandleManifest
<1>5. CASE Unwanted(f)
  BY <1>5, IgnoreKeeps DEF Unwanted
<1>6. CASE HandleBlock(f)
  BY <1>6, HandleBlockKeeps
<1>7. CASE EmptyProof(f)
  BY <1>7, EmptyProofKeeps
<1>8. CASE HandleProof(f)
  BY <1>8, HandleProofKeeps
<1> QED
  BY <1>1, <1>2, <1>3, <1>4, <1>5, <1>6, <1>7, <1>8 DEF OnFrame

\* A step keeps the invariant, whatever frame it takes, that leaves the geometry the
\* accepted manifest's.
LEMMA StepKeeps == IInv /\ [Next]_vars /\ GeometryIsSigned' => IInv'
<1> SUFFICES ASSUME IInv, [Next]_vars, GeometryIsSigned' PROVE IInv'
  OBVIOUS
<1>1. ASSUME NEW f \in Frames, OnFrame(f) PROVE IInv'
  BY <1>1, FrameKeeps
<1>2. CASE Poll
  BY <1>2, PollKeeps
<1>3. CASE Reboot
  BY <1>3, RebootKeeps
<1>4. CASE UNCHANGED vars
  BY <1>4, KeepsInvariant, InvariantFields DEF vars
<1> QED
  BY <1>1, <1>2, <1>3, <1>4 DEF Next

-----------------------------------------------------------------------------
(* A late START that agrees with the accepted manifest is the condition of   *)
(* OneRelease's specification; what it is for is the geometry.               *)

\* No frame but a START disturbs it: it comes with the manifest, or stays as it is.
LEMMA FrameKeepsGeometry ==
  ASSUME IInv, NEW f \in Frames, OnFrame(f), ~HandleStart(f)
  PROVE  GeometryIsSigned'
<1>1. CASE TakeManifest(f)
  BY <1>1, TakeManifestKeeps DEF IInv
<1>2. CASE ~TakeManifest(f)
  <2>1. UNCHANGED <<geometry, manifest_ready, manifest>>
    BY <1>2 DEF OnFrame, NotForUs, Ignore, HandleAbort, HandleManifest, ManifestFragment,
       RefuseManifest, LateManifest, Unwanted, HandleBlock, EmptyProof, HandleProof,
       geometryVars, manifestVars
  <2> QED
    BY <2>1 DEF IInv, GeometryIsSigned, GeometryOf
<1> QED
  BY <1>1, <1>2

\* Nor does a START whose hints match.
LEMMA MatchingStartKeepsGeometry ==
  ASSUME IInv, NEW f \in Frames, HandleStart(f), HintsMatch(f)
  PROVE  GeometryIsSigned'
<1>1. Hears(f, "Start") /\ f.data # <<>> /\ geometry' = f.data[1]
      /\ UNCHANGED <<manifest_ready, manifest>>
  BY DEF HandleStart, manifestVars
<1> QED
  BY <1>1 DEF HintsMatch, IInv, GeometryIsSigned, GeometryOf

\* Such a receiver is one that is handed any frames.
LEMMA ReleaseIsAReceiver == ReleaseSpec => Spec
<1>1. [ReleaseNext]_vars => [Next]_vars
  BY DEF ReleaseNext, Next
<1> QED
  BY <1>1, PTL DEF ReleaseSpec, Spec

LEMMA ReleaseStepKeeps == IInv /\ [ReleaseNext]_vars => IInv'
<1> SUFFICES ASSUME IInv, [ReleaseNext]_vars PROVE IInv'
  OBVIOUS
<1>1. ASSUME NEW f \in Frames, HintsMatch(f), OnFrame(f) PROVE IInv'
  BY <1>1, FrameKeepsGeometry, MatchingStartKeepsGeometry, FrameKeeps
<1>2. CASE Poll
  BY <1>2, PollKeeps
<1>3. CASE Reboot
  BY <1>3, RebootKeeps
<1>4. CASE UNCHANGED vars
  BY <1>4, KeepsInvariant, InvariantFields DEF vars
<1> QED
  BY <1>1, <1>2, <1>3, <1>4 DEF ReleaseNext

-----------------------------------------------------------------------------
(* The theorems.  Those of Spec hold of a receiver that is handed any        *)
(* frames; those of ReleaseSpec where a late START matches the manifest.     *)

\* The invariant holds of every behaviour with any frames whatsoever, for as long as
\* the geometry stays the accepted manifest's.
THEOREM InvariantHolds == Spec => ([]GeometryIsSigned => []IInv)
BY InitIsGood, StepKeeps, PTL DEF Spec

\* The invariant holds of a receiver whose late STARTs match the manifest.
THEOREM ReleaseInvariant == ReleaseSpec => []IInv
BY InitIsGood, ReleaseStepKeeps, PTL DEF ReleaseSpec

\* The receiver's variables keep their types, and no buffer is filled past its end.
THEOREM TypeCorrect == Spec => ([]GeometryIsSigned => []TypeOK)
<1>1. IInv => TypeOK
  BY DEF IInv
<1> QED
  BY <1>1, InvariantHolds, PTL

\* The receiver works from a signed manifest and the geometry that manifest signs,
\* whatever an early START hints, whatever else arrives in whatever order.
THEOREM SignedGeometry == ReleaseSpec => []GeometryIsSigned
<1>1. IInv => GeometryIsSigned
  BY DEF IInv
<1> QED
  BY <1>1, ReleaseInvariant, PTL

\* Whatever frames arrive, in whatever order, only blocks of a signed package enter
\* the journal, for as long as no late START has replaced the signed geometry.  That
\* proviso is needed: under another block count the tree has another shape.
THEOREM SignedJournal == Spec => ([]GeometryIsSigned => []JournalIsSigned)
<1>1. IInv => JournalIsSigned
  BY DEF IInv
<1> QED
  BY <1>1, InvariantHolds, PTL

\* A receiver that says it is done has the whole signed payload, on the same proviso.
THEOREM DoneIsWhole == Spec => ([]GeometryIsSigned => []DoneMeansAll)
<1>1. IInv => DoneMeansAll
  BY DEF IInv
<1> QED
  BY <1>1, InvariantHolds, PTL

\* No block is left with both halves waiting, and no half of a journaled block.
THEOREM HalvesAreJoined == Spec => ([]GeometryIsSigned => []NoHalfForgotten)
<1>1. IInv => NoHalfForgotten
  BY DEF IInv
<1> QED
  BY <1>1, InvariantHolds, PTL

\* Once its manifest is accepted, only an Abort frame ends a session.
THEOREM AbortsOnlyOnAbort == Spec => OnlyAbortEndsIt
<1>1. [Next]_vars => [manifest_ready /\ aborted' => aborted \/ \E f \in Frames : HandleAbort(f)]_vars
  <2> SUFFICES ASSUME Next, manifest_ready, aborted', ~aborted
               PROVE  \E f \in Frames : HandleAbort(f)
    OBVIOUS
  <2>1. ~Poll /\ ~Reboot
    BY DEF Poll, Reboot
  <2>2. PICK f \in Frames : OnFrame(f)
    BY <2>1 DEF Next
  <2>3. HandleAbort(f)
    BY <2>2 DEF OnFrame, NotForUs, Ignore, HandleStart, HandleManifest, ManifestFragment,
                RefuseManifest, TakeManifest, LateManifest, WantsManifest, Unwanted,
                HandleBlock, EmptyProof, HandleProof
  <2> QED
    BY <2>3
<1> QED
  BY <1>1, PTL DEF Spec, OnlyAbortEndsIt

-----------------------------------------------------------------------------
(* What is asked for.                                                        *)

\* next_needed_block names a block that is missing, or none when none is.
LEMMA NextNeededBlockIsMissing ==
  ASSUME geometry' \in Geometry, next_needed_block' # kIndexManifest
  PROVE  next_needed_block' \in Missing'
<1>1. Missing' # {}
  BY DEF next_needed_block
<1>2. Missing' \subseteq Nat
  <2>1. geometry'.block_count \in Nat
    BY GeometryFields, IndexIsNat
  <2>2. Missing' \subseteq 0..(geometry'.block_count - 1)
    BY DEF Missing, has_block
  <2> QED
    BY <2>1, <2>2
<1>3. \E i \in Missing' : \A j \in Missing' : i <= j
  BY <1>1, <1>2, LeastMember
<1> QED
  BY <1>1, <1>3 DEF next_needed_block

LEMMA TwoFrames ==
  ASSUME NEW first, NEW second
  PROVE  /\ Len(Append(<<first>>, second)) = 2
         /\ Append(<<first>>, second)[1] = first
         /\ Append(<<first>>, second)[2] = second
BY SMT

\* request_next after an Ack, or after nothing.
LEMMA RequestNextAsks ==
  ASSUME geometry' \in Geometry, NEW sent, request_next(sent),
         sent = <<>> \/ \E i : sent = <<send_simple("Ack", i)>>
  PROVE  AsksForMissingOnly'
<1> USE DEF send_simple, SimpleFrame, MakeFrame
<1>1. PICK frame : out' = Append(sent, frame)
                   /\ \/ frame = send_simple("Request", kIndexManifest)
                      \/ frame = send_simple("Done", 0)
                      \/ /\ next_needed_block' # kIndexManifest
                         /\ frame = send_simple("Request", next_needed_block')
  BY DEF request_next
<1>2. frame.type = "Request" /\ frame.index # kIndexManifest => frame.index \notin DOMAIN store'
  BY <1>1, NextNeededBlockIsMissing DEF Missing, has_block
<1>3. CASE sent = <<>>
  <2>1. out' = <<frame>>
    BY <1>1, <1>3
  <2> QED
    BY <1>2, <2>1 DEF AsksForMissingOnly
<1>4. CASE \E i : sent = <<send_simple("Ack", i)>>
  <2>1. PICK i : sent = <<send_simple("Ack", i)>>
    BY <1>4
  <2> DEFINE ack == send_simple("Ack", i)
  <2>2. ack.type # "Request"
    OBVIOUS
  <2> HIDE DEF ack
  <2>3. out' = Append(<<ack>>, frame)
    BY <1>1, <2>1 DEF ack
  <2>4. Len(out') = 2 /\ out'[1] = ack /\ out'[2] = frame
    BY <2>3, TwoFrames
  <2> QED
    BY <1>2, <2>2, <2>4 DEF AsksForMissingOnly
<1> QED
  BY <1>3, <1>4

LEMMA SilenceAsksNothing ==
  ASSUME out' = <<>>
  PROVE  AsksForMissingOnly'
BY DEF AsksForMissingOnly

\* A call sends nothing, or ends in request_next, after an Ack of the frame's block
\* perhaps.
LEMMA FrameSends ==
  ASSUME NEW f \in Frames, OnFrame(f)
  PROVE  \/ out' = <<>> /\ UNCHANGED complete
         \/ ~complete /\ request_next(<<>>)
         \/ /\ ~complete /\ f.type \in {"Block", "Proof"}
            /\ request_next(<<send_simple("Ack", f.index)>>)
<1>1. CASE NotForUs(f) \/ Unwanted(f) \/ LateManifest(f)
  BY <1>1 DEF NotForUs, Unwanted, LateManifest, Ignore
<1>2. CASE HandleAbort(f) \/ ManifestFragment(f) \/ RefuseManifest(f)
  BY <1>2 DEF HandleAbort, ManifestFragment, RefuseManifest, Silent
<1>3. CASE HandleStart(f) \/ TakeManifest(f)
  BY <1>3 DEF HandleStart, TakeManifest, WantsManifest, Hears
<1>4. CASE HandleBlock(f)
  <2>1. ~complete /\ f.type = "Block"
    BY <1>4 DEF HandleBlock, Hears
  <2>2. Silent \/ \E blocks, pfs : TryFinishBlock(f.index, blocks, pfs)
    BY <1>4 DEF HandleBlock
  <2> QED
    BY <2>1, <2>2 DEF TryFinishBlock, Silent
<1>5. CASE EmptyProof(f) \/ HandleProof(f)
  <2>1. ~complete /\ f.type = "Proof"
    BY <1>5 DEF EmptyProof, HandleProof, Hears
  <2>2. Silent \/ \E blocks, pfs : TryFinishBlock(f.index, blocks, pfs)
    BY <1>5 DEF EmptyProof, HandleProof
  <2> QED
    BY <2>1, <2>2 DEF TryFinishBlock, Silent
<1> QED
  BY <1>1, <1>2, <1>3, <1>4, <1>5 DEF OnFrame, HandleManifest

\* The geometry is one the frames can spell, whoever sent it.
GeometryIsTyped == geometry \in Geometry

LEMMA StepKeepsGeometryTyped == GeometryIsTyped /\ [Next]_vars => GeometryIsTyped'
<1> SUFFICES ASSUME GeometryIsTyped, [Next]_vars PROVE geometry' \in Geometry
  BY DEF GeometryIsTyped
<1>1. ASSUME NEW f \in Frames, OnFrame(f) PROVE geometry' \in Geometry
  <2>1. CASE HandleStart(f)
    <3>1. f.type = "Start" /\ f.data # <<>> /\ geometry' = f.data[1]
      BY <2>1 DEF HandleStart, Hears
    <3>2. f.data \in Seq(Geometry)
      BY <3>1, FrameFields
    <3>3. 1 \in 1..Len(f.data)
      BY <3>1, <3>2, EmptySeq
    <3> QED
      BY <3>1, <3>2, <3>3, ElementOfSeq
  <2>2. CASE TakeManifest(f)
    <3>1. PICK m \in Manifests : geometry' \in {geometry, TruncatedGeometryOf(m)}
      BY <2>2 DEF TakeManifest, AcceptManifest, Parses
    <3>2. m.block_size % U16 \in Index /\ m.block_count % U16 \in Index
          /\ m.payload_length \in Nat
      BY ManifestAssumption, SixteenBits
    <3> QED
      BY <3>1, <3>2 DEF GeometryIsTyped, TruncatedGeometryOf, Geometry
  <2>3. CASE ~HandleStart(f) /\ ~TakeManifest(f)
    BY <1>1, <2>3 DEF GeometryIsTyped, OnFrame, NotForUs, Ignore, HandleAbort, HandleManifest,
       ManifestFragment, RefuseManifest, LateManifest, Unwanted, HandleBlock,
       EmptyProof, HandleProof, geometryVars
  <2> QED
    BY <2>1, <2>2, <2>3
<1>2. CASE Poll \/ UNCHANGED vars
  BY <1>2 DEF GeometryIsTyped, Poll, vars, geometryVars
<1>3. CASE Reboot
  BY <1>3, NewValues DEF Reboot
<1> QED
  BY <1>1, <1>2, <1>3 DEF Next

LEMMA StepAsks ==
  ASSUME GeometryIsTyped', AsksForMissingOnly, [Next]_vars
  PROVE  AsksForMissingOnly'
<1>1. geometry' \in Geometry
  BY DEF GeometryIsTyped
<1>2. ASSUME NEW f \in Frames, OnFrame(f)
      PROVE  AsksForMissingOnly'
  BY <1>1, <1>2, FrameSends, RequestNextAsks, SilenceAsksNothing
<1>3. CASE Poll
  BY <1>1, <1>3, RequestNextAsks DEF Poll
<1>4. CASE Reboot
  BY <1>4, SilenceAsksNothing DEF Reboot
<1>5. CASE UNCHANGED vars
  BY <1>5 DEF vars, AsksForMissingOnly
<1> QED
  BY <1>2, <1>3, <1>4, <1>5 DEF Next

\* A receiver asks for no block it has, whatever frames arrive, over any store and
\* after any reboot.
THEOREM AsksForMissing == Spec => []AsksForMissingOnly
<1>1. Init => GeometryIsTyped /\ AsksForMissingOnly
  BY NewValues DEF Init, GeometryIsTyped, AsksForMissingOnly
<1>2. GeometryIsTyped /\ AsksForMissingOnly /\ [Next]_vars
        => GeometryIsTyped' /\ AsksForMissingOnly'
  BY StepKeepsGeometryTyped, StepAsks
<1> QED
  BY <1>1, <1>2, PTL DEF Spec

-----------------------------------------------------------------------------
(* The receiver implements the abstract transfer: the initial states map to  *)
(* its initial states, and every step maps to one of its steps or to no      *)
(* change at all.                                                            *)

\* The phase of a receiver (the refinement mapping's other half is the store).
Phase == IF aborted THEN "refused" ELSE IF complete THEN "done" ELSE "receiving"

abstractVars == <<store, Phase>>

\* One block was journaled, that was missing.
Journals(i, b) ==
  /\ manifest_ready
  /\ i \in Index /\ ~has_block(i)
  /\ store' = With(store, i, b)
  /\ UNCHANGED <<manifest_ready, manifest>>

\* What a call changes of the state that is mapped: nothing, or, before the end,
\* the abort flag alone, or one block and the completion.
Changes ==
  \/ UNCHANGED <<store, aborted, complete>>
  \/ /\ ~aborted /\ ~complete
     /\ aborted' = TRUE
     /\ UNCHANGED <<store, complete>>
  \/ /\ ~aborted /\ ~complete
     /\ UNCHANGED aborted
     /\ UNCHANGED store \/ \E i, b : Journals(i, b)

LEMMA TryFinishBlockChanges ==
  ASSUME manifest_ready, NEW i \in Index, ~has_block(i), NEW blocks, NEW pfs,
         ~aborted, ~complete, UNCHANGED <<manifestVars, aborted>>,
         TryFinishBlock(i, blocks, pfs)
  PROVE  Changes
<1>1. UNCHANGED store \/ store' = With(store, i, blocks[i])
  BY DEF TryFinishBlock, PutBlock
<1>2. UNCHANGED store \/ Journals(i, blocks[i])
  BY <1>1 DEF Journals, manifestVars
<1> QED
  BY <1>2 DEF Changes

LEMMA FrameChanges ==
  ASSUME NEW f \in Frames, OnFrame(f)
  PROVE  Changes
<1>1. CASE NotForUs(f) \/ Unwanted(f) \/ LateManifest(f)
  BY <1>1 DEF NotForUs, Unwanted, LateManifest, Ignore, Changes
<1>2. CASE HandleAbort(f)
  BY <1>2 DEF HandleAbort, Hears, Silent, Changes
<1>3. CASE HandleStart(f)
  BY <1>3 DEF HandleStart, Hears, Changes
<1>4. CASE ManifestFragment(f)
  BY <1>4 DEF ManifestFragment, Silent, Changes
<1>5. CASE RefuseManifest(f)
  BY <1>5 DEF RefuseManifest, WantsManifest, Hears, Silent, Changes
<1>6. CASE TakeManifest(f)
  <2>1. ~aborted /\ ~complete /\ UNCHANGED <<aborted, store>>
    BY <1>6 DEF TakeManifest, WantsManifest, Hears
  <2> QED
    BY <2>1 DEF Changes
<1>7. CASE HandleBlock(f)
  <2>1. f.index \in Index /\ ~has_block(f.index) /\ manifest_ready
        /\ ~aborted /\ ~complete /\ UNCHANGED <<manifestVars, aborted>>
    BY <1>7, FrameFields DEF HandleBlock, Hears
  <2>2. \/ UNCHANGED <<store, complete>>
        \/ \E blocks, pfs : TryFinishBlock(f.index, blocks, pfs)
    BY <1>7 DEF HandleBlock, Silent
  <2>3. CASE UNCHANGED <<store, complete>>
    BY <2>1, <2>3 DEF Changes
  <2> QED
    BY <2>1, <2>2, <2>3, TryFinishBlockChanges
<1>8. CASE EmptyProof(f)
  BY <1>8, FrameFields, TryFinishBlockChanges DEF EmptyProof, Hears
<1>9. CASE HandleProof(f)
  <2>1. f.index \in Index /\ ~has_block(f.index) /\ manifest_ready
        /\ ~aborted /\ ~complete /\ UNCHANGED <<manifestVars, aborted>>
    BY <1>9, FrameFields DEF HandleProof, Hears
  <2>2. \/ UNCHANGED <<store, complete>>
        \/ \E blocks, pfs : TryFinishBlock(f.index, blocks, pfs)
    BY <1>9 DEF HandleProof, Silent
  <2>3. CASE UNCHANGED <<store, complete>>
    BY <2>1, <2>3 DEF Changes
  <2> QED
    BY <2>1, <2>2, <2>3, TryFinishBlockChanges
<1> QED
  BY <1>1, <1>2, <1>3, <1>4, <1>5, <1>6, <1>7, <1>8, <1>9 DEF OnFrame, HandleManifest

LEMMA CallChanges ==
  ASSUME [Next]_vars
  PROVE  Changes \/ Reboot
<1>1. CASE \E f \in Frames : OnFrame(f)
  BY <1>1, FrameChanges
<1>2. CASE Poll
  BY <1>2 DEF Poll, Changes
<1>3. CASE UNCHANGED vars
  BY <1>3 DEF vars, Changes
<1> QED
  BY <1>1, <1>2, <1>3 DEF Next

-----------------------------------------------------------------------------
\* A block that is journaled is the accepted package's.
LEMMA JournalsOnePackage ==
  ASSUME IInv, IInv', NEW i, NEW b, Journals(i, b)
  PROVE  /\ manifest \in Signed
         /\ T!Holds(manifest)
         /\ i \in T!Blocks(manifest) \ DOMAIN store
         /\ store' = [j \in DOMAIN store \cup {i} |-> Payload[manifest][j + 1]]
<1>1. manifest_ready /\ i \in Index /\ ~has_block(i) /\ store' = With(store, i, b)
      /\ UNCHANGED <<manifest_ready, manifest>>
  BY DEF Journals
<1>2. manifest \in Signed /\ manifest.block_count \in Nat
  BY <1>1, ManifestAssumption DEF IInv, GeometryIsSigned
<1>3. /\ \A j \in DOMAIN store : BlockOf(manifest, j, store[j])
      /\ \A j \in DOMAIN store' : BlockOf(manifest, j, store'[j])
  BY <1>1 DEF IInv, JournalIsSigned, BlockOf
<1>4. \A j \in Index : j < manifest.block_count => j \in 0..(manifest.block_count - 1)
  BY <1>2, IndexIsNat
<1>5. \A j \in DOMAIN store : j \in Index
  BY DEF IInv, TypeOK
<1>6. T!Holds(manifest)
  BY <1>3, <1>4, <1>5 DEF T!Holds, T!Blocks, BlockOf
<1>7. DOMAIN store' = DOMAIN store \cup {i}
  BY <1>1 DEF With
<1>8. i \in T!Blocks(manifest) \ DOMAIN store
  BY <1>1, <1>3, <1>4, <1>7 DEF T!Blocks, BlockOf, has_block
<1>9. store' = [j \in DOMAIN store \cup {i} |-> Payload[manifest][j + 1]]
  <2>1. \A j \in DOMAIN store \cup {i} : store'[j] = Payload[manifest][j + 1]
    BY <1>3, <1>7 DEF BlockOf
  <2>2. store' = [j \in DOMAIN store \cup {i} |-> store'[j]]
    BY <1>1 DEF With
  <2> QED
    BY <2>1, <2>2
<1> QED
  BY <1>2, <1>6, <1>8, <1>9

LEMMA RebootRestarts ==
  ASSUME Reboot
  PROVE  T!Restart
<1>1. store' \in {store, [i \in {} |-> <<>>]}
  BY DEF Reboot, StoreAfterReboot, EmptyMap
<1>2. ~aborted' /\ ~complete'
  BY DEF Reboot
<1> QED
  BY <1>1, <1>2 DEF T!Restart

\* A call that journals nothing leaves the transfer as it is or finishes it.
LEMMA NothingJournaled ==
  ASSUME IInv, IInv', ~aborted, ~complete, UNCHANGED <<aborted, store>>
  PROVE  T!Finish \/ UNCHANGED abstractVars
<1>1. CASE ~complete'
  BY <1>1 DEF abstractVars, Phase
<1>2. CASE complete'
  <2>1. /\ manifest' \in Signed
        /\ DOMAIN store = 0..(manifest'.block_count - 1)
        /\ \A i \in DOMAIN store : BlockOf(manifest', i, store[i])
    BY <1>2 DEF IInv, GeometryIsSigned, DoneMeansAll, BlockOf
  <2>2. T!Holds(manifest') /\ DOMAIN store = T!Blocks(manifest')
    BY <2>1 DEF T!Holds, T!Blocks, BlockOf
  <2> QED
    BY <1>2, <2>1, <2>2 DEF T!Finish
<1> QED
  BY <1>1, <1>2

\* A call that journals a block stores it, the last one perhaps.
LEMMA OneJournaled ==
  ASSUME IInv, IInv', ~aborted, ~complete, UNCHANGED aborted, NEW i, NEW b, Journals(i, b)
  PROVE  T!Store \/ T!StoreLast
<1>1. /\ manifest \in Signed
      /\ i \in T!Blocks(manifest)
      /\ T!Journal(manifest, i)
  BY JournalsOnePackage DEF T!Journal
<1>2. CASE ~complete'
  BY <1>1, <1>2 DEF T!Store
<1>3. CASE complete'
  <2>1. DOMAIN store' = T!Blocks(manifest)
    BY <1>3 DEF IInv, DoneMeansAll, T!Blocks, Journals
  <2> QED
    BY <1>1, <1>3, <2>1 DEF T!StoreLast
<1> QED
  BY <1>2, <1>3

LEMMA StepImplements ==
  ASSUME IInv, IInv', [Next]_vars
  PROVE  [T!TransferNext]_abstractVars
<1>1. CASE Reboot
  BY <1>1, RebootRestarts DEF T!TransferNext
<1>2. CASE UNCHANGED <<store, aborted, complete>>
  BY <1>2 DEF abstractVars, Phase
<1>3. CASE ~aborted /\ ~complete /\ aborted' = TRUE /\ UNCHANGED <<store, complete>>
  BY <1>3 DEF T!TransferNext, T!Refuse
<1>4. CASE ~aborted /\ ~complete /\ UNCHANGED <<aborted, store>>
  BY <1>4, NothingJournaled DEF T!TransferNext
<1>5. CASE ~aborted /\ ~complete /\ UNCHANGED aborted /\ \E i, b : Journals(i, b)
  BY <1>5, OneJournaled DEF T!TransferNext
<1> QED
  BY <1>1, <1>2, <1>3, <1>4, <1>5, CallChanges DEF Changes

\* Every behaviour of the receiver, with any frames, polls and reboots, is one of the
\* abstract transfer for as long as the geometry stays the accepted manifest's: only
\* missing blocks of one signed package enter the journal, it ends exactly when they are
\* all there, and a restart keeps the journal or empties it.
THEOREM ReceiverImplementsTransfer == Spec => ([]GeometryIsSigned => ImplementsTransfer)
<1>1. Init => T!TransferInit
  BY DEF Init, T!TransferInit, EmptyMap
<1>2. IInv /\ IInv' /\ [Next]_vars => [T!TransferNext]_abstractVars
  BY StepImplements
<1> QED
  BY <1>1, <1>2, InvariantHolds, PTL DEF Spec, ImplementsTransfer, T!TransferSpec,
     abstractVars, Phase

\* So it is where late STARTs match the manifest.
THEOREM ReleaseImplementsTransfer == ReleaseSpec => ImplementsTransfer
BY ReleaseIsAReceiver, SignedGeometry, ReceiverImplementsTransfer, PTL
=============================================================================
