---------------------------- MODULE OtaReceiver ----------------------------
(***************************************************************************)
(* The receiver's state machine (transport.cpp, class OtaReceiver), alone  *)
(* with its block store.  Its environment is open: at every step it may be *)
(* handed any frame of Frames, polled, or rebooted, so every loss,         *)
(* duplication, reordering and corruption of what a seeder sends is one of *)
(* its behaviours.                                                         *)
(*                                                                         *)
(* Bytes are cells (see Merkle).  A manifest is one cell and its signature *)
(* another; the payload of a START frame is one geometry.                  *)
(***************************************************************************)
EXTENDS Merkle, OtaFrame

CONSTANTS
  Session,     \* the session id this receiver was built with
  Frames,      \* the frames the channel may hand to it
  Manifests,   \* the manifests (right magic and format) those frames can spell
  Signed,      \* the manifests the update key has signed
  Payload,     \* Payload[m]: the blocks of the package whose manifest is m
  BlockCells,  \* the cells of Block frames
  ProofCells,  \* the cells of Proof frames
  MaxUnit,     \* the longest unit (manifest, block, proof), in cells
  Persistent,  \* the block store survives a reboot
  MayRefuse    \* put_block may return false

VARIABLES
  have_geometry,    \* a START or a manifest has given the geometry
  geometry,         \* block_size_, block_count_, payload_length_
  manifest_re,      \* reassembly of the manifest unit
  manifest_ready,   \* the signed manifest was accepted
  manifest,         \* manifest_ and merkle_root_
  block_re,         \* reassembly of a block ...
  block_in_flight,  \* ... and its index
  proof_re,         \* reassembly of a proof ...
  proof_in_flight,  \* ... and its index
  ready_blocks,     \* whole blocks that wait for their proof
  proofs,           \* whole proofs that wait for their block
  complete,
  aborted,
  store,            \* the IBlockStore: the journaled blocks, by index
  out               \* the frames sent during the last call

unitVars == <<block_re, block_in_flight, proof_re, proof_in_flight>>
manifestVars == <<manifest_re, manifest_ready, manifest>>
geometryVars == <<have_geometry, geometry>>
vars == <<geometryVars, manifestVars, unitVars, ready_blocks, proofs, complete,
          aborted, store, out>>

-----------------------------------------------------------------------------
SizeofManifest == 1         \* sizeof(Manifest), in cells

Geometry == [block_size : Index, block_count : Index, payload_length : Nat]

GeometryOf(m) == [block_size |-> m.block_size, block_count |-> m.block_count,
                  payload_length |-> m.payload_length]

\* The geometry the receiver keeps of a manifest when no START came first.
TruncatedGeometryOf(m) ==
  [block_size |-> m.block_size % U16, block_count |-> m.block_count % U16,
   payload_length |-> m.payload_length]

SignatureOf(m) == [signature_of |-> m]
Damaged == [damaged |-> TRUE]     \* bytes that spell nothing
ManifestCells == Manifests \cup {SignatureOf(m) : m \in Signed} \cup {Damaged}

\* The frames a channel can carry.
Frame ==
  FrameOf({"Start"}, Geometry) \cup FrameOf({"Manifest"}, ManifestCells)
    \cup FrameOf({"Block"}, BlockCells) \cup FrameOf({"Proof"}, ProofCells)
    \cup FrameOf({"Request", "Ack", "Done", "Abort"}, {})

ASSUME SessionAssumption == Session \in Nat
ASSUME MaxUnitAssumption == MaxUnit \in Index
ASSUME ManifestAssumption ==
  /\ Signed \subseteq Manifests
  /\ \A m \in Manifests : m.block_size \in Nat /\ m.block_count \in Nat
                          /\ m.payload_length \in Nat
ASSUME FramesAssumption == \A f \in Frames : f \in Frame /\ f.total <= MaxUnit
ASSUME StoreAssumption == Persistent \in BOOLEAN /\ MayRefuse \in BOOLEAN

-----------------------------------------------------------------------------
(* The reassembler of one unit: data is the part of the buffer that is      *)
(* filled.                                                                   *)

Idle == [total |-> 0, data |-> <<>>, active |-> FALSE]

Reset(total) == [total |-> total, data |-> <<>>, active |-> TRUE]

Fits_Overrun(re, f) == re.active /\ f.off = Len(re.data)
Fits_Gap(re, f) == re.active /\ f.off + Len(f.data) <= re.total
Fits(re, f) ==
  /\ re.active
  /\ f.off = Len(re.data)
  /\ f.off + Len(f.data) <= re.total

Fed(re, f) == IF Fits(re, f) THEN [re EXCEPT !.data = @ \o f.data] ELSE re

Completes(re, f) == Fits(re, f) /\ Len(Fed(re, f).data) >= re.total

Stopped(re) == [re EXCEPT !.active = FALSE]

-----------------------------------------------------------------------------
(* Maps keyed by block index.                                                *)

With(map, i, v) == [j \in DOMAIN map \cup {i} |-> IF j = i THEN v ELSE map[j]]

Without_Kept(map, i) == map
Without(map, i) == [j \in DOMAIN map \ {i} |-> map[j]]

EmptyMap == [i \in {} |-> <<>>]

-----------------------------------------------------------------------------
(* What the receiver sends.                                                  *)

send_simple(type, index) == SimpleFrame(type, Session, index)

has_block(i) == i \in DOMAIN store

Missing_ButLast == {i \in 0..(geometry.block_count - 2) : ~has_block(i)}
Missing == {i \in 0..(geometry.block_count - 1) : ~has_block(i)}

next_needed_block_First == IF Missing = {} THEN kIndexManifest ELSE 0
next_needed_block ==
  IF Missing = {} THEN kIndexManifest
                  ELSE CHOOSE i \in Missing : \A j \in Missing : i <= j

\* The end of every handler that makes progress: sent, what the handler sent
\* before, and then a request for what is missing now, or Done.
request_next(sent) ==
  \/ /\ ~manifest_ready'
     /\ out' = Append(sent, send_simple("Request", kIndexManifest))
     /\ UNCHANGED complete
  \/ /\ manifest_ready'
     /\ next_needed_block' = kIndexManifest
     /\ out' = Append(sent, send_simple("Done", 0))
     /\ complete' = TRUE
  \/ /\ manifest_ready'
     /\ next_needed_block' # kIndexManifest
     /\ out' = Append(sent, send_simple("Request", next_needed_block'))
     /\ UNCHANGED complete

Silent == out' = <<>> /\ UNCHANGED complete

-----------------------------------------------------------------------------
(* on_frame: a frame of another session, and every frame after the end, is  *)
(* dropped.                                                                  *)

Hears(f, type) == f.session = Session /\ ~aborted /\ ~complete /\ f.type = type

\* The whole handler of a frame that changes nothing.
Ignore ==
  /\ out' = <<>>
  /\ UNCHANGED <<geometryVars, manifestVars, unitVars, ready_blocks, proofs,
                 complete, aborted, store>>

NotForUs(f) ==
  /\ \/ f.session # Session
     \/ aborted \/ complete
     \/ f.type \in {"Request", "Ack", "Done"}
     \/ f.type = "Start" /\ f.data = <<>>
  /\ Ignore

HandleAbort(f) ==
  /\ Hears(f, "Abort")
  /\ aborted' = TRUE
  /\ Silent
  /\ UNCHANGED <<geometryVars, manifestVars, unitVars, ready_blocks, proofs, store>>

\* handle_start takes the hints whatever it knows already.
HandleStart(f) ==
  /\ Hears(f, "Start")
  /\ f.data # <<>>
  /\ have_geometry' = TRUE
  /\ geometry' = f.data[1]
  /\ UNCHANGED <<manifestVars, unitVars, ready_blocks, proofs, aborted, store>>
  /\ request_next(<<>>)

-----------------------------------------------------------------------------
\* The manifest unit parses (length, magic, format).
Parses(buf) == Len(buf) >= SizeofManifest /\ buf[1] \in Manifests

\* ISignatureVerifier::verify over the manifest bytes and what follows them.
VerifySignature(buf) ==
  buf[1] \in Signed /\ Tail(buf) = <<SignatureOf(buf[1])>>

\* The hints, when there are any, agree with the manifest.
HintsAgree_Ignored(m) == TRUE
HintsAgree(m) == have_geometry => geometry = GeometryOf(m)

AcceptManifest(buf) == Parses(buf) /\ VerifySignature(buf) /\ HintsAgree(buf[1])

\* The manifest unit's buffer after a fragment.
ManifestBuffer(f) == IF f.off = 0 THEN Reset(f.total) ELSE manifest_re

WantsManifest_Always(f) == Hears(f, "Manifest")
WantsManifest(f) == Hears(f, "Manifest") /\ ~manifest_ready

ManifestFragment(f) ==
  /\ WantsManifest(f)
  /\ ~Completes(ManifestBuffer(f), f)
  /\ manifest_re' = Fed(ManifestBuffer(f), f)
  /\ Silent
  /\ UNCHANGED <<geometryVars, manifest_ready, manifest, unitVars, ready_blocks,
                 proofs, aborted, store>>

RefuseManifest(f) ==
  /\ WantsManifest(f)
  /\ Completes(ManifestBuffer(f), f)
  /\ LET re == Fed(ManifestBuffer(f), f)
     IN  ~AcceptManifest(re.data) /\ manifest_re' = re
  /\ aborted' = TRUE
  /\ Silent
  /\ UNCHANGED <<geometryVars, manifest_ready, manifest, unitVars, ready_blocks,
                 proofs, store>>

TakeManifest(f) ==
  /\ WantsManifest(f)
  /\ Completes(ManifestBuffer(f), f)
  /\ LET re == Fed(ManifestBuffer(f), f)
         m  == re.data[1]
     IN  /\ AcceptManifest(re.data)
         /\ geometry' = IF have_geometry THEN geometry ELSE TruncatedGeometryOf(m)
         /\ manifest' = m
         /\ manifest_re' = Stopped(re)
  /\ manifest_ready' = TRUE
  /\ UNCHANGED <<have_geometry, unitVars, ready_blocks, proofs, aborted, store>>
  /\ request_next(<<>>)

LateManifest(f) == Hears(f, "Manifest") /\ manifest_ready /\ Ignore

HandleManifest(f) ==
  ManifestFragment(f) \/ RefuseManifest(f) \/ TakeManifest(f) \/ LateManifest(f)

-----------------------------------------------------------------------------
\* IBlockStore::put_block; the receiver does not look at its result.
PutBlock(i, block) ==
  \/ store' = With(store, i, block)
  \/ MayRefuse /\ store' = store

\* try_finish_block(i), blocks and pfs being the maps with the unit that is now
\* whole in its place.
TryFinishBlock(i, blocks, pfs) ==
  \/ /\ i \notin DOMAIN blocks \cap DOMAIN pfs
     /\ ready_blocks' = blocks
     /\ proofs' = pfs
     /\ store' = store
     /\ Silent
  \/ /\ i \in DOMAIN blocks \cap DOMAIN pfs
     /\ ready_blocks' = Without(blocks, i)
     /\ proofs' = Without(pfs, i)
     /\ IF merkle_verify_block(blocks[i], i, geometry.block_count, pfs[i],
                               manifest.payload_merkle_root)
        THEN PutBlock(i, blocks[i]) /\ request_next(<<send_simple("Ack", i)>>)
        ELSE store' = store /\ request_next(<<>>)

\* A unit the receiver has no use for: no root to check it against yet, or a
\* block that is journaled.
Unwanted_Asks(f) ==
  /\ Hears(f, "Block") \/ Hears(f, "Proof")
  /\ ~manifest_ready \/ has_block(f.index)
  /\ UNCHANGED <<geometryVars, manifestVars, unitVars, ready_blocks, proofs,
                 aborted, store>>
  /\ request_next(<<>>)
Unwanted(f) ==
  /\ Hears(f, "Block") \/ Hears(f, "Proof")
  /\ ~manifest_ready \/ has_block(f.index)
  /\ Ignore

\* A fragment of another unit than the one in flight starts afresh.
BlockBuffer_InFlight(f) ==
  IF block_in_flight # f.index THEN Reset(f.total) ELSE block_re
BlockBuffer(f) ==
  IF f.off = 0 \/ block_in_flight # f.index THEN Reset(f.total) ELSE block_re

HandleBlock(f) ==
  /\ Hears(f, "Block")
  /\ manifest_ready
  /\ ~has_block(f.index)
  /\ block_in_flight' = f.index
  /\ UNCHANGED <<geometryVars, manifestVars, proof_re, proof_in_flight, aborted>>
  /\ LET re == Fed(BlockBuffer(f), f)
     IN  \/ /\ ~Completes(BlockBuffer(f), f)
            /\ block_re' = re
            /\ Silent
            /\ UNCHANGED <<ready_blocks, proofs, store>>
         \/ /\ Completes(BlockBuffer(f), f)
            /\ block_re' = Stopped(re)
            /\ TryFinishBlock(f.index, With(ready_blocks, f.index, re.data), proofs)

ProofBuffer(f) ==
  IF f.off = 0 \/ proof_in_flight # f.index THEN Reset(f.total) ELSE proof_re

\* The digests a proof unit spells.
SplitProof(buf) ==
  [k \in 1..(Len(buf) \div HashLen) |->
     SubSeq(buf, (k - 1) * HashLen + 1, k * HashLen)]

\* The proof of a one-block tree is empty.
EmptyProof(f) ==
  /\ Hears(f, "Proof")
  /\ manifest_ready
  /\ ~has_block(f.index)
  /\ f.total = 0
  /\ UNCHANGED <<geometryVars, manifestVars, unitVars, aborted>>
  /\ TryFinishBlock(f.index, ready_blocks, With(proofs, f.index, <<>>))

HandleProof(f) ==
  /\ Hears(f, "Proof")
  /\ manifest_ready
  /\ ~has_block(f.index)
  /\ f.total # 0
  /\ proof_in_flight' = f.index
  /\ UNCHANGED <<geometryVars, manifestVars, block_re, block_in_flight, aborted>>
  /\ LET re    == Fed(ProofBuffer(f), f)
         whole == Completes(ProofBuffer(f), f)
     IN  \/ /\ ~whole
            /\ proof_re' = re
            /\ Silent
            /\ UNCHANGED <<ready_blocks, proofs, store>>
         \/ /\ whole
            /\ Len(re.data) % HashLen # 0
            /\ proof_re' = Stopped(re)
            /\ Silent
            /\ UNCHANGED <<ready_blocks, proofs, store>>
         \/ /\ whole
            /\ Len(re.data) % HashLen = 0
            /\ proof_re' = Stopped(re)
            /\ TryFinishBlock(f.index, ready_blocks,
                              With(proofs, f.index, SplitProof(re.data)))

-----------------------------------------------------------------------------
OnFrame(f) ==
  \/ NotForUs(f)
  \/ HandleAbort(f)
  \/ HandleStart(f)
  \/ HandleManifest(f)
  \/ Unwanted(f)
  \/ HandleBlock(f)
  \/ EmptyProof(f)
  \/ HandleProof(f)

Poll ==
  /\ ~aborted
  /\ ~complete
  /\ UNCHANGED <<geometryVars, manifestVars, unitVars, ready_blocks, proofs,
                 aborted, store>>
  /\ request_next(<<>>)

NoGeometry == [block_size |-> 0, block_count |-> 0, payload_length |-> 0]
NoManifest == Damaged

\* A receiver as its constructor leaves it, over an empty store.
Init ==
  /\ have_geometry = FALSE /\ geometry = NoGeometry
  /\ manifest_re = Idle /\ manifest_ready = FALSE /\ manifest = NoManifest
  /\ block_re = Idle /\ block_in_flight = kIndexManifest
  /\ proof_re = Idle /\ proof_in_flight = kIndexManifest
  /\ ready_blocks = EmptyMap /\ proofs = EmptyMap
  /\ complete = FALSE /\ aborted = FALSE
  /\ store = EmptyMap
  /\ out = <<>>

\* What a restart leaves of the store.
StoreAfterReboot == IF Persistent THEN store ELSE EmptyMap

\* The device restarts: a new receiver over what is left of the store.
Reboot ==
  /\ have_geometry' = FALSE /\ geometry' = NoGeometry
  /\ manifest_re' = Idle /\ manifest_ready' = FALSE /\ manifest' = NoManifest
  /\ block_re' = Idle /\ block_in_flight' = kIndexManifest
  /\ proof_re' = Idle /\ proof_in_flight' = kIndexManifest
  /\ ready_blocks' = EmptyMap /\ proofs' = EmptyMap
  /\ complete' = FALSE /\ aborted' = FALSE
  /\ store' = StoreAfterReboot
  /\ out' = <<>>

Next == (\E f \in Frames : OnFrame(f)) \/ Poll \/ Reboot

Spec == Init /\ [][Next]_vars

-----------------------------------------------------------------------------
(* What the receiver promises.                                               *)

\* The reassemblers of units made of the given cells.  What is filled never
\* runs past the buffer (feed's overrun guard, transport.cpp:97).
Reassembler(cells) ==
  {re \in [total : 0..MaxUnit, data : Seq(cells), active : BOOLEAN] :
     Len(re.data) <= re.total}

TypeOK ==
  /\ have_geometry \in BOOLEAN
  /\ geometry \in Geometry
  /\ manifest_re \in Reassembler(ManifestCells)
  /\ manifest_ready \in BOOLEAN
  /\ manifest_ready => manifest \in Manifests
  /\ block_re \in Reassembler(BlockCells)
  /\ block_in_flight \in Index
  /\ proof_re \in Reassembler(ProofCells)
  /\ proof_in_flight \in Index
  /\ DOMAIN ready_blocks \subseteq Index
  /\ \A i \in DOMAIN ready_blocks : ready_blocks[i] \in Seq(BlockCells)
  /\ DOMAIN proofs \subseteq Index
  /\ \A i \in DOMAIN proofs : proofs[i] \in Seq(Seq(ProofCells))
  /\ DOMAIN store \subseteq Index
  /\ \A i \in DOMAIN store : store[i] \in Seq(BlockCells)
  /\ complete \in BOOLEAN
  /\ aborted \in BOOLEAN

\* b is block i of the package that m signs.
BlockOf(m, i, b) == i < m.block_count /\ b = Payload[m][i + 1]

\* The manifest a receiver works from is signed, and the geometry it counts
\* blocks and walks the tree with is the one that manifest signs: "the manifest
\* is authoritative" (docs/guide.md:345-347; handle_manifest, handle_start).
GeometryIsSigned ==
  manifest_ready => manifest \in Signed /\ geometry = GeometryOf(manifest)

\* Every journaled block is, byte for byte, the block of a signed package at that
\* index, and of the accepted manifest's package once there is one: whatever was
\* lost, mixed up, repeated or damaged, try_finish_block lets nothing else in
\* (transport.cpp:299-317).
JournalIsSigned ==
  \A i \in DOMAIN store :
    IF manifest_ready THEN BlockOf(manifest, i, store[i])
                      ELSE \E m \in Signed : BlockOf(m, i, store[i])

\* A receiver that is complete (and has sent Done, "all blocks verified",
\* transport.h:43) has the whole payload of its signed manifest in the store.
DoneMeansAll ==
  complete => /\ manifest_ready
              /\ DOMAIN store = 0..(manifest.block_count - 1)
              /\ \A i \in DOMAIN store : BlockOf(manifest, i, store[i])

\* Between two calls no block has both halves waiting, and neither half of a
\* journaled block is kept: try_finish_block runs whenever a half completes and
\* drops both, verified or not (transport.cpp:303, 314-315).
NoHalfForgotten ==
  /\ DOMAIN ready_blocks \cap DOMAIN proofs = {}
  /\ (DOMAIN ready_blocks \cup DOMAIN proofs) \cap DOMAIN store = {}

\* Only an Abort frame ends a session whose manifest is accepted: from there on a
\* damaged, stale or foreign unit costs a retransmission and never the session
\* (aborted_ is set on the manifest's path and by Abort only).
OnlyAbortEndsIt ==
  [][manifest_ready /\ aborted' => aborted \/ \E f \in Frames : HandleAbort(f)]_vars

\* A receiver asks for no block it has: over a store that survived, a new
\* receiver fetches the missing blocks only ("a fresh receiver requests only the
\* missing blocks", docs/guide.md:350-351; next_needed_block).
AsksForMissingOnly ==
  \A k \in 1..Len(out) :
    out[k].type = "Request" /\ out[k].index # kIndexManifest
      => out[k].index \notin DOMAIN store

\* The receiver implements the abstract transfer: on_frame, poll and a reboot
\* journal a missing block, finish, refuse, restart or leave it all as it is.
T == INSTANCE Transfer WITH
       journal <- store,
       phase <- IF aborted THEN "refused" ELSE IF complete THEN "done" ELSE "receiving"

ImplementsTransfer == T!TransferSpec

=============================================================================
