----------------------------- MODULE OneRelease -----------------------------
(***************************************************************************)
(* The conditions under which the receiver keeps its promises: what the    *)
(* code leaves to its callers.  The runs that show what happens without    *)
(* them use OtaReceiver alone.                                             *)
(***************************************************************************)
EXTENDS OtaReceiver

\* The signed geometry fits the 16 bits the frames and the receiver's
\* block_size_ and block_count_ give it (transport.cpp:235-236).
ASSUME SignedFits ==
  \A m \in Signed : m.block_size < U16 /\ m.block_count < U16

\* A store that survives a reboot is used for one package: has_block says nothing
\* of the package a block belongs to (transport.cpp:251, 270).
ASSUME OnePackagePerJournal == Persistent => \A m1, m2 \in Signed : m1 = m2

\* The units the frames can spell.
Units(cells) == UNION {[1..n -> cells] : n \in 0..MaxUnit}
Proofs == {SplitProof(buf) : buf \in Units(ProofCells)}

\* A signed manifest carries the root of the tree over its payload's blocks
\* (tools/packager/package.py:111-127).
ASSUME PayloadIsSigned ==
  \A m \in Signed :
    m.payload_merkle_root =
      merkle_root([k \in 1..m.block_count |-> hash_leaf(Payload[m][k])])

-----------------------------------------------------------------------------
(* The environment: any frame at any time, but for one kind.  A START that   *)
(* comes before the manifest may say what it likes, handle_manifest refuses  *)
(* hints that disagree.  handle_start does not check one that comes later    *)
(* against the manifest (transport.cpp:187-189), so that one has to agree.   *)

HintsMatch(f) ==
  manifest_ready /\ Hears(f, "Start") /\ f.data # <<>>
    => f.data[1] = GeometryOf(manifest)

ReleaseNext ==
  \/ \E f \in Frames : HintsMatch(f) /\ OnFrame(f)
  \/ Poll
  \/ Reboot

ReleaseSpec == Init /\ [][ReleaseNext]_vars

-----------------------------------------------------------------------------
(* The inductive invariant: with the receiver's promises, what keeps them    *)
(* true from one call to the next.                                           *)

\* The whole units that wait are units frames can spell.
WaitingUnits ==
  /\ \A i \in DOMAIN ready_blocks : ready_blocks[i] \in Units(BlockCells)
  /\ \A i \in DOMAIN proofs : proofs[i] \in Proofs

\* Only a store that survives reboots holds blocks before the manifest comes.
EarlyJournal == ~manifest_ready => DOMAIN store = {} \/ Persistent

\* Every call of on_frame and poll, and every reboot, leads from a state like this
\* to one like this: what try_finish_block, handle_manifest and request_next rely on
\* (transport.cpp:122-142, 227-245, 299-317) is there whenever they are called.
IInv ==
  /\ TypeOK
  /\ WaitingUnits
  /\ EarlyJournal
  /\ GeometryIsSigned
  /\ JournalIsSigned
  /\ DoneMeansAll
  /\ NoHalfForgotten

=============================================================================
