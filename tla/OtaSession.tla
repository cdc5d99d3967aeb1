----------------------------- MODULE OtaSession -----------------------------
(***************************************************************************)
(* One session: a seeder and a receiver, each driven by the loop the guide *)
(* gives it (docs/guide.md, sections 3 and 6), joined by a radio that may  *)
(* lose, repeat, delay and damage frames, a bounded number of times.       *)
(***************************************************************************)
EXTENDS OneRelease, FiniteSets, SequencesExt

CONSTANTS
  Package,        \* the package the seeder holds
  FragmentSize,   \* the seeder's fragment size
  MaxFaults,      \* bound: faults of the radio
  MaxNudges,      \* bound: polls while frames are still under way
  MaxReboots,     \* bound: restarts of the receiving device
  Losable,        \* the frame types the radio may lose
  Repeatable,     \* ... may deliver a second time, late
  Damageable      \* ... may damage

VARIABLES
  seeder_done,    \* OtaSeeder::done_
  seeder_sent,    \* the frames the seeder sent during its last call
  toTarget,       \* frames under way, in sending order
  toSeeder,
  faults, nudges, reboots   \* how often the bounded events have happened

S == INSTANCE OtaSeeder WITH done <- seeder_done, sent <- seeder_sent

ASSUME FragmentAssumption == FragmentSize \in Nat \ {0}

\* The seeder's constructor loops over the payload; the loop ends only for a
\* positive block size (transport.cpp:409).
ASSUME BlockSizeAssumption == S!block_size # 0

\* The bytes of block i in the package.
BlockUnit(i) == S!Slice(Package.payload, i * S!block_size, S!block_size)

\* The bytes of a damaged fragment spell nothing.
DamagedFrame(f) == [f EXCEPT !.data = [k \in 1..Len(f.data) |-> Damaged]]

\* The frames of this session are its seeder's, as they were sent or damaged.
SeederFrames ==
  ToSet(S!StartFrames) \cup ToSet(S!ManifestFrames)
    \cup UNION {ToSet(S!Answer(i)) : i \in 0..(S!block_count - 1)}
ASSUME ChannelAssumption ==
  /\ SeederFrames \subseteq Frames
  /\ \A f \in Frames : f.type \in Damageable => DamagedFrame(f) \in Frames

\* They spell one manifest, the package's, and if it is signed then over the blocks
\* the package's payload is cut into.  A package parses only when its manifest gives
\* the length of its payload (package.cpp:41).
ASSUME PackageAssumption ==
  /\ Manifests = {Package.manifest} /\ Package.payload \in Seq(BlockCells)
  /\ Package.manifest.payload_length = S!payload_len
  /\ \A m \in Signed, i \in 0..(S!block_count - 1) :
       Payload[m][i + 1] = BlockUnit(i)

\* The manifest counts the blocks of the payload (tools/packager/package.py:126).
\* send_block relies on it: for a block that begins beyond the payload its length,
\* payload_len_ - base, would wrap (transport.cpp:454-455), where Slice is empty.
ASSUME BlocksAreCounted == S!block_count = S!CeilDiv(S!payload_len, S!block_size)

ASSUME FaultAssumption == MaxFaults \in Nat /\ MaxNudges \in Nat /\ MaxReboots \in Nat

radioVars == <<toTarget, toSeeder>>
seederVars == <<seeder_done, seeder_sent>>
bounds == <<faults, nudges, reboots>>
sessionVars == <<vars, seederVars, radioVars, bounds>>

-----------------------------------------------------------------------------
\* The seeder calls begin() before its loop.
SessionInit ==
  /\ Init
  /\ S!SeederInit
  /\ toTarget = seeder_sent
  /\ toSeeder = <<>>
  /\ faults = 0 /\ nudges = 0 /\ reboots = 0

\* radio.receive gave the target a frame.
TargetReceives ==
  /\ toTarget # <<>>
  /\ OnFrame(Head(toTarget))
  /\ toTarget' = Tail(toTarget)
  /\ toSeeder' = toSeeder \o out'
  /\ UNCHANGED <<seederVars, bounds>>

\* radio.receive gave it none: nothing is under way any more ...
TargetTimesOut ==
  /\ toTarget = <<>> /\ toSeeder = <<>>
  /\ Poll
  /\ toSeeder' = toSeeder \o out'
  /\ UNCHANGED <<seederVars, toTarget, bounds>>

\* ... or the answer is only late.
TargetNudges ==
  /\ toTarget # <<>> \/ toSeeder # <<>>
  /\ nudges < MaxNudges
  /\ nudges' = nudges + 1
  /\ Poll
  /\ toSeeder' = toSeeder \o out'
  /\ UNCHANGED <<seederVars, toTarget, faults, reboots>>

TargetLoop == TargetReceives \/ TargetTimesOut

\* The seeder's loop ends once it is done.
SeederReceives ==
  /\ ~seeder_done
  /\ toSeeder # <<>>
  /\ S!SeederOnFrame(Head(toSeeder))
  /\ toSeeder' = Tail(toSeeder)
  /\ toTarget' = toTarget \o seeder_sent'
  /\ UNCHANGED <<vars, bounds>>

-----------------------------------------------------------------------------
Fault == faults < MaxFaults /\ faults' = faults + 1

Lose ==
  /\ Fault
  /\ \/ /\ \E k \in 1..Len(toTarget) : /\ toTarget[k].type \in Losable
                                       /\ toTarget' = RemoveAt(toTarget, k)
        /\ UNCHANGED toSeeder
     \/ /\ \E k \in 1..Len(toSeeder) : /\ toSeeder[k].type \in Losable
                                       /\ toSeeder' = RemoveAt(toSeeder, k)
        /\ UNCHANGED toTarget
  /\ UNCHANGED <<vars, seederVars, nudges, reboots>>

\* A second copy arrives after everything that is under way.
Repeat ==
  /\ Fault
  /\ \/ /\ \E k \in 1..Len(toTarget) : /\ toTarget[k].type \in Repeatable
                                       /\ toTarget' = Append(toTarget, toTarget[k])
        /\ UNCHANGED toSeeder
     \/ /\ \E k \in 1..Len(toSeeder) : /\ toSeeder[k].type \in Repeatable
                                       /\ toSeeder' = Append(toSeeder, toSeeder[k])
        /\ UNCHANGED toTarget
  /\ UNCHANGED <<vars, seederVars, nudges, reboots>>

Damage ==
  /\ Fault
  /\ \E k \in 1..Len(toTarget) :
       /\ toTarget[k].type \in Damageable
       /\ toTarget' = [toTarget EXCEPT ![k] = DamagedFrame(toTarget[k])]
  /\ UNCHANGED <<vars, seederVars, toSeeder, nudges, reboots>>

\* The device restarts in the middle of the transfer; frames under way stay so.
TargetReboots ==
  /\ reboots < MaxReboots
  /\ ~complete
  /\ reboots' = reboots + 1
  /\ Reboot
  /\ UNCHANGED <<seederVars, radioVars, faults, nudges>>

SessionNext ==
  \/ TargetLoop \/ TargetNudges \/ SeederReceives
  \/ Lose \/ Repeat \/ Damage \/ TargetReboots

SessionSpec == SessionInit /\ [][SessionNext]_sessionVars

\* The first frame under way is taken: by its receiver, or it is lost, which
\* happens MaxFaults times at most.
Taken(q) == q # <<>> /\ q' = Tail(q)

\* Both loops keep running, and a target that hears nothing polls.
Fairness ==
  /\ WF_toTarget(Taken(toTarget))
  /\ WF_toSeeder(~seeder_done /\ Taken(toSeeder))
  /\ WF_sessionVars(TargetTimesOut)

FairSessionSpec == SessionSpec /\ Fairness

-----------------------------------------------------------------------------
\* How many of the frames are requests.
Requests(seq) == Cardinality({k \in 1..Len(seq) : seq[k].type = "Request"})

\* The buffer holds the first cells of the unit, as the seeder sent them or damaged.
Holds(buf, unit) ==
  /\ Len(buf) <= Len(unit)
  /\ \A k \in DOMAIN buf : buf[k] \in {unit[k], Damaged}

\* The digests are the unit, split at every HashLen cells.
Spells(digests, unit) ==
  /\ Len(digests) * HashLen = Len(unit)
  /\ \A d \in DOMAIN digests :
       /\ Len(digests[d]) = HashLen
       /\ \A c \in 1..HashLen : digests[d][c] \in {unit[(d - 1) * HashLen + c], Damaged}

\* Whatever is lost, late, repeated or damaged, the buffer of a unit holds the first
\* bytes of that very unit, never a mix of two, and what waits for its other half is
\* the whole of it (handle_block and handle_proof start afresh on another index, feed
\* refuses a gap, transport.cpp:91-103, 254-257, 278-281).
BuffersHoldOneUnit ==
  /\ block_re.active => Holds(block_re.data, BlockUnit(block_in_flight))
  /\ proof_re.active => Holds(proof_re.data, S!ProofBytes(proof_in_flight))
  /\ \A i \in DOMAIN ready_blocks :
       Len(ready_blocks[i]) = Len(BlockUnit(i)) /\ Holds(ready_blocks[i], BlockUnit(i))
  /\ \A i \in DOMAIN proofs : Spells(proofs[i], S!ProofBytes(i))

\* One request at a time, whatever happens: a fault or a poll adds at most one to what
\* is asked for and not answered, a reboot none, so that repeated and late frames cannot
\* make the requests multiply (request_next at the end of a handler that used up both
\* halves of an answer, transport.cpp:310-317).
RequestsDoNotMultiply ==
  Requests(toSeeder) <= 1 + faults + nudges

\* However frames are lost, late or repeated, what waits in ready_blocks_ and proofs_
\* is half of a block that is still missing, never a whole one or a leftover of one
\* that is journaled: an honest seeder cannot fill the maps (transport.cpp:261, 290,
\* 314-315).
HalvesAreOfMissing ==
  /\ DOMAIN ready_blocks \cap DOMAIN proofs = {}
  /\ DOMAIN ready_blocks \cup DOMAIN proofs \subseteq Missing

\* A seeder that is done leaves a target that has its whole package: Done is the
\* only end, and stands for the journal it was sent from.
DoneIsTrue ==
  seeder_done =>
    /\ DOMAIN store = 0..(S!block_count - 1)
    /\ \A i \in DOMAIN store : store[i] = BlockUnit(i)

(* The inductive invariant: what each end has said is known by the other.    *)

\* The frame carries a piece of the unit, as the seeder cut it or damaged.
Carries(f, unit) ==
  /\ f.total = Len(unit)
  /\ f.off + Len(f.data) <= Len(unit)
  /\ \A k \in DOMAIN f.data : f.data[k] \in {unit[f.off + k], Damaged}

\* What is under way to the target: frames of the channel, the seeder's one START, and
\* of blocks and proofs only pieces of those the package has.
Served ==
  {f \in Frames :
     /\ f.type = "Start" => f \in ToSet(S!StartFrames)
     /\ f.type \in {"Block", "Proof"} => f.index < S!block_count
     /\ f.type = "Block" => Carries(f, BlockUnit(f.index))
     /\ f.type = "Proof" => Carries(f, S!ProofBytes(f.index))}

\* What is under way to the seeder: requests for units the seeder has, advisory
\* acknowledgements of its blocks, and Done from a receiver that is complete and
\* from no other.
Calls ==
  LET blocks == 0..(S!block_count - 1)
  IN  {SimpleFrame("Request", Session, i) : i \in blocks \cup {kIndexManifest}}
        \cup {SimpleFrame("Ack", Session, i) : i \in blocks}
        \cup (IF complete THEN {SimpleFrame("Done", Session, 0)} ELSE {})

\* Nothing waits before the manifest is accepted, and then only halves of the
\* package's blocks.
HalvesInRange ==
  \A i \in DOMAIN ready_blocks \cup DOMAIN proofs :
    manifest_ready /\ i < S!block_count

\* A buffer that is being filled expects the length of its unit.
TotalsAreTheUnits ==
  /\ block_re.active => block_re.total = Len(BlockUnit(block_in_flight))
  /\ proof_re.active => proof_re.total = Len(S!ProofBytes(proof_in_flight))

\* A receiver that is complete stays so, and its Done stays true while it is under
\* way and after the seeder's loop has ended.
SessionInv ==
  /\ IInv
  /\ toTarget \in Seq(Served)
  /\ toSeeder \in Seq(Calls)
  /\ HalvesInRange
  /\ TotalsAreTheUnits
  /\ BuffersHoldOneUnit
  /\ seeder_done => complete

\* However the bounded faults fall, the target ends up with the whole package.
Delivered == <>[]complete

\* A target that is complete lets its seeder go.
SeederLearnsDone == complete ~> seeder_done

\* A target that gave up lets its seeder go.
SeederLearnsAbort == aborted ~> seeder_done

=============================================================================
