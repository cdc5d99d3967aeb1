-------------------------- MODULE FullImageUpdate --------------------------
(***************************************************************************)
(* The full-image update (docs/guide.md, sections 3 and 4): the receiver   *)
(* over a FlashTargetBlockStore, the caller that gives the store the       *)
(* manifest once the receiver has it, commits once it is complete and      *)
(* aborts the target when it gave up.  The receiver's store is the bits of *)
(* the flash store: a put it makes is a FlashPut, which may come before    *)
(* the manifest, out of order, or fail.  An interrupt makes receiver and   *)
(* store anew, which is the initial state again and not a step here.       *)
(***************************************************************************)
EXTENDS OneRelease, FlashTargetBlockStore

CONSTANTS
  Genuine,    \* the frames of an honest seeder; the rest of Frames is damage, or an Abort
  MaxFaults   \* bound: frames that are not genuine

VARIABLE faults

Blocks == Payload[TheManifest]

\* One image is signed, and its manifest counts its blocks (package.py:126).
ASSUME OneImage ==
  /\ Signed = {TheManifest}
  /\ Block = {Blocks[k] : k \in DOMAIN Blocks}
  /\ Blocks \in Seq(Block) /\ Len(Blocks) = TheManifest.block_count
  /\ Genuine \subseteq Frames
  /\ MaxFaults \in Nat

updateVars == <<vars, storeVars, faults>>

UpdateInit == Init /\ StoreInit /\ faults = 0

\* The indices put_block was called with in the last call: an Ack follows each.
Put == {out[k].index : k \in {j \in DOMAIN out : out[j].type = "Ack"}}

\* The block of a put that is not kept is of no importance: nothing is written of it.
Receive(f) ==
  /\ OnFrame(f)
  /\ \/ Put' = {} /\ UNCHANGED storeVars
     \/ \E i \in Put' :
          /\ FlashPut(i, IF i \in DOMAIN store' THEN store'[i] ELSE <<>>)
          /\ have' = DOMAIN store'

ReceiveGenuine == (\E f \in Genuine : Receive(f)) /\ UNCHANGED faults

ReceiveOther ==
  /\ faults < MaxFaults
  /\ faults' = faults + 1
  /\ \E f \in Frames \ Genuine : Receive(f)

PollAgain == Poll /\ UNCHANGED <<storeVars, faults>>

\* store.set_manifest(&receiver.manifest()), some time after it is there.
Prime == manifest_ready /\ ~manifest_set /\ set_manifest /\ UNCHANGED <<vars, faults>>

Activate == complete /\ CommitTarget /\ UNCHANGED <<vars, faults>>

\* The guide's loop ends (guide.md:117); the caller may abort the target then.
GiveUp == aborted /\ AbortTarget /\ UNCHANGED <<vars, faults>>

UpdateNext == ReceiveGenuine \/ ReceiveOther \/ PollAgain \/ Prime \/ Activate \/ GiveUp

UpdateSpec == UpdateInit /\ [][UpdateNext]_updateVars

\* The radio goes on bringing the answers to what the receiver asks for, the
\* caller goes on, and a put the store may take is not refused for ever.
Answer(f) ==
  /\ f.index = IF manifest_ready THEN next_needed_block ELSE kIndexManifest
  /\ Receive(f)
  /\ UNCHANGED faults
CanStore(i) == manifest_set /\ i = next /\ i \in DOMAIN ready_blocks \cup DOMAIN proofs
Stores(i) == i \in have' \ have

Fairness ==
  /\ \A f \in Genuine : WF_updateVars(Answer(f))
  /\ \A i \in BlockIndex : []<>CanStore(i) => []<><<Stores(i)>>_updateVars
  /\ WF_updateVars(Prime) /\ WF_updateVars(Activate)

FairUpdateSpec == UpdateSpec /\ Fairness

-----------------------------------------------------------------------------
\* At any moment the target holds a prefix of the signed image, each block at its
\* place: puts that came early, out of order or twice, or failed, left no hole and
\* no foreign byte (FlashTargetBlockStore::put_block, transport.cpp:325-350).
FlashIsPrefix ==
  /\ Len(target.writes) <= Len(Blocks)
  /\ \A k \in DOMAIN target.writes :
       target.writes[k] = [off |-> (k - 1) * TheManifest.block_size, data |-> Blocks[k]]

\* "After receiver.complete()" (docs/guide.md:142-143) the whole image is on the
\* target, so commit() passes its gate; what is activated is the whole image.
DoneIsFlashed ==
  complete \/ target.state = "active" => Len(target.writes) = Len(Blocks)

\* A put that the store refused (no manifest yet, not the next block, a failed
\* begin or write) or a damaged block costs another request and never the transfer:
\* the image is written and activated in the end, unless the receiver gave up.
EventuallyActive == <>(target.state = "active" \/ aborted)
-----------------------------------------------------------------------------
(* The inductive invariant of the composition.                               *)

\* The journal the receiver keeps is what has_block answers it.
JournalIsHave == DOMAIN store = have

\* What the target took are the blocks of the image, from the first on.
WritesAreBlocks == \A k \in DOMAIN target.writes : target.writes[k].data = Blocks[k]

\* put_block is never called for an index behind the last block: the receiver puts what
\* it has verified, at an index below the signed block count.
NoneBeyond == next <= TheManifest.block_count

\* Only a whole image is activated, and nothing is written after that.
ActiveIsWhole == target.state = "active" => next = TheManifest.block_count

\* Every frame, poll and call of the update's caller leads from a state like this to
\* one like this: the receiver's and the store's own invariants, and what relates the
\* journal, the bits and the bytes (transport.cpp:299-350).
UpdateInv ==
  IInv /\ StoreInv /\ JournalIsHave /\ NoneBeyond /\ WritesAreBlocks /\ ActiveIsWhole
=============================================================================
