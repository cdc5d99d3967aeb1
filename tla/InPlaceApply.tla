---------------------------- MODULE InPlaceApply ----------------------------
(***************************************************************************)
(* Applying an in-place delta to the one flash region that holds the       *)
(* running image (detools.c, the in-place part, called by                  *)
(* detools_apply_in_place): the old image is first moved up by shift_size, *)
(* then the new one is written from the bottom, segment after segment.     *)
(* Each moved and each written segment is a step; the step journal records *)
(* the last one completed, and a run after a power cut skips them.         *)
(*                                                                         *)
(* The region is an array of cells.  A cell is what one write of the code  *)
(* (at most 128 bytes) puts there, named for its meaning: byte j of the    *)
(* old image, byte j of the new one, erased, or garbage.  A patch is, for  *)
(* each segment, the chunks [diff, extra, adjust] of its stream.           *)
(***************************************************************************)
EXTENDS Integers, Sequences

CONSTANTS
  memory_size, segment_size, shift_size,   \* the header of the patch, in cells
  from_size, to_size,
  Patches,     \* the patches: Patch[i + 1] is the chunk sequence of segment i
  MaxCuts      \* bound: power cuts and failed flash operations

VARIABLES
  patch,          \* the patch this region is updated with
  flash,          \* survives a power cut
  journal,        \* IStepJournal: survives a power cut
  state,          \* the apply state; "shift_*" while init_to_size moves memory
  ongoing_step,
  shifting,       \* in_place_shift_memory: the segment moved and the cell in it
  index,          \* segment.index - 1: the segment being written
  chunk,          \* the chunk of that segment the reader is at
  chunk_size,     \* what is left of the diff or the extra data
  from_offset,    \* segment.from_offset
  segment_pos,    \* segment.to_pos
  cuts

vars == <<patch, flash, journal, state, ongoing_step, shifting, index, chunk,
          chunk_size, from_offset, segment_pos, cuts>>
readerVars == <<chunk, chunk_size, from_offset, segment_pos>>

-----------------------------------------------------------------------------
Smaller(a, b) == IF a < b THEN a ELSE b
Larger(a, b) == IF a > b THEN a ELSE b
DivCeil(a, b) == (a + b - 1) \div b

Address == 0..(memory_size - 1)

Old(j) == [image |-> "from", byte |-> j]
New(j) == [image |-> "to", byte |-> j]
Erased == [image |-> "none", byte |-> 0]
Garbage == [image |-> "none", byte |-> 1]

\* The segments of the old image that are moved, and those of the new one.
number_of_segments == DivCeil(Smaller(from_size, memory_size - shift_size), segment_size)
to_segments == DivCeil(to_size, segment_size)

\* The cells of segment i of the new image.
SegmentSize(i) == Smaller(segment_size, to_size - i * segment_size)
SegmentCells(i) == {i * segment_size + c : c \in 0..(SegmentSize(i) - 1)}

\* Where the source of segment i begins: above what this segment overwrites.
FromBase(i) == Larger(segment_size * (i + 1), shift_size)

\* Where the moved old image ends.
OldEnd == Smaller(memory_size, shift_size + from_size)

-----------------------------------------------------------------------------
(* A sound patch (what the host's detools emits): each segment's chunks fill *)
(* it, and its diffs read cells of the moved old image above the segment.    *)

Chunks == [diff : Nat, extra : Nat, adjust : Int]

\* Where a cursor that starts somewhere is before each of its moves, and after the last.
Running(start, moves) ==
  LET at[c \in 1..(Len(moves) + 1)] == IF c = 1 THEN start ELSE at[c - 1] + moves[c - 1]
  IN  at

\* The position in segment i's source, and in the segment, before chunk c.
SourceOf(p, i) ==
  Running(FromBase(i), [c \in 1..Len(p[i + 1]) |-> p[i + 1][c].diff + p[i + 1][c].adjust])
FilledBefore(p, i) ==
  Running(0, [c \in 1..Len(p[i + 1]) |-> p[i + 1][c].diff + p[i + 1][c].extra])

\* The addresses segment i is made from.
Sources(p, i) ==
  UNION {SourceOf(p, i)[c]..(SourceOf(p, i)[c] + p[i + 1][c].diff - 1) :
           c \in 1..Len(p[i + 1])}

SoundPatch(p) ==
  /\ p \in Seq(Seq(Chunks)) /\ Len(p) = to_segments
  /\ \A i \in 0..(to_segments - 1) :
       /\ p[i + 1] # <<>>
       /\ FilledBefore(p, i)[Len(p[i + 1]) + 1] = SegmentSize(i)
       /\ \A a \in Sources(p, i) :
            /\ FromBase(i) <= a
            /\ a < OldEnd

\* What the host's tool guarantees of the sizes: whole segments, and a shift of
\* one segment at least.
ASSUME SizesAssumption ==
  /\ segment_size \in Nat \ {0}
  /\ memory_size \in Nat /\ memory_size % segment_size = 0
  /\ shift_size \in Nat /\ shift_size % segment_size = 0
  /\ segment_size <= shift_size /\ shift_size < memory_size
  /\ from_size \in 1..memory_size
  /\ to_size \in 1..memory_size
ASSUME PatchesAssumption == \A p \in Patches : SoundPatch(p)
ASSUME BoundsAssumption == MaxCuts \in Nat

-----------------------------------------------------------------------------
(* The flash callbacks.  A completed step reads zeros and writes nothing.    *)

is_step_completed_Less == ongoing_step < journal
is_step_completed == ongoing_step <= journal

\* A cell that is not erased cannot take another value.
Written(old, v) == IF old \in {Erased, v} THEN v ELSE Garbage

MemRead(a) == IF is_step_completed THEN Garbage ELSE flash[a]

MemWrite_Always(a, v) == flash' = [flash EXCEPT ![a] = Written(@, v)]
MemWrite(a, v) ==
  IF is_step_completed THEN UNCHANGED flash
                       ELSE flash' = [flash EXCEPT ![a] = Written(@, v)]

MemErase(from, to) ==
  IF is_step_completed THEN UNCHANGED flash
  ELSE flash' = [a \in Address |-> IF a \in from..to THEN Erased ELSE flash[a]]

\* in_place_next_step: journal the step unless it was completed before.
NextStep_Overwrites ==
  /\ journal' = ongoing_step
  /\ ongoing_step' = ongoing_step + 1
NextStep_Forgets == UNCHANGED journal /\ ongoing_step' = ongoing_step + 1
NextStep ==
  /\ journal' = IF is_step_completed THEN journal ELSE ongoing_step
  /\ ongoing_step' = ongoing_step + 1

-----------------------------------------------------------------------------
\* A run begins: the header is read again, whatever the journal says.
ReadHeader ==
  /\ state = "init"
  /\ ongoing_step' = 1
  /\ index' = 0
  /\ shifting' = [segment |-> number_of_segments - 1, cell |-> 0]
  /\ state' = "shift_erase"
  /\ UNCHANGED <<patch, flash, journal, readerVars, cuts>>

\* in_place_shift_memory: the topmost segment first.
ReadAddress == shifting.segment * segment_size
WriteAddress == ReadAddress + shift_size

ShiftErase ==
  /\ state = "shift_erase"
  /\ MemErase(WriteAddress, WriteAddress + segment_size - 1)
  /\ state' = "shift_copy"
  /\ UNCHANGED <<patch, journal, ongoing_step, shifting, index, readerVars, cuts>>

ShiftCopy ==
  /\ state = "shift_copy"
  /\ shifting.cell < segment_size
  /\ MemWrite(WriteAddress + shifting.cell, MemRead(ReadAddress + shifting.cell))
  /\ shifting' = [shifting EXCEPT !.cell = @ + 1]
  /\ UNCHANGED <<patch, journal, state, ongoing_step, index, readerVars, cuts>>

ShiftNext ==
  /\ state = "shift_copy"
  /\ shifting.cell = segment_size
  /\ NextStep
  /\ shifting' = [segment |-> shifting.segment - 1, cell |-> 0]
  /\ state' = IF shifting.segment = 0 THEN "dfpatch_size" ELSE "shift_erase"
  /\ UNCHANGED <<patch, flash, index, readerVars, cuts>>

-----------------------------------------------------------------------------
\* in_place_process_dfpatch_size: the segment begins, and is erased.
BeginSegment ==
  /\ state = "dfpatch_size"
  /\ from_offset' = FromBase(index)
  /\ segment_pos' = 0
  /\ chunk' = 1
  /\ chunk_size' = 0
  /\ MemErase(index * segment_size, index * segment_size + SegmentSize(index) - 1)
  /\ state' = "diff_size"
  /\ UNCHANGED <<patch, journal, ongoing_step, shifting, index, cuts>>

Here == patch[index + 1][chunk]

\* in_place_process_size, for the diff and for the extra data.
ReadSize ==
  /\ \/ state = "diff_size" /\ state' = "diff_data" /\ chunk_size' = Here.diff
     \/ state = "extra_size" /\ state' = "extra_data" /\ chunk_size' = Here.extra
  /\ UNCHANGED <<patch, flash, journal, ongoing_step, shifting, index, chunk,
                 from_offset, segment_pos, cuts>>

\* in_place_process_data with nothing left.
EndData ==
  /\ chunk_size = 0
  /\ \/ state = "diff_data" /\ state' = "extra_size"
     \/ state = "extra_data" /\ state' = "adjustment"
  /\ UNCHANGED <<patch, flash, journal, ongoing_step, shifting, index, readerVars,
                 cuts>>

ToAddress == index * segment_size + segment_pos

\* A diff gives the new byte only from the old byte it was made against.
Patched(cell) ==
  IF cell = Old(from_offset - shift_size) THEN New(ToAddress) ELSE Garbage

DiffData ==
  /\ state = "diff_data"
  /\ chunk_size > 0
  /\ MemWrite(ToAddress, Patched(MemRead(from_offset)))
  /\ from_offset' = from_offset + 1
  /\ segment_pos' = segment_pos + 1
  /\ chunk_size' = chunk_size - 1
  /\ UNCHANGED <<patch, journal, state, ongoing_step, shifting, index, chunk, cuts>>

ExtraData ==
  /\ state = "extra_data"
  /\ chunk_size > 0
  /\ MemWrite(ToAddress, New(ToAddress))
  /\ segment_pos' = segment_pos + 1
  /\ chunk_size' = chunk_size - 1
  /\ UNCHANGED <<patch, journal, state, ongoing_step, shifting, index, chunk,
                 from_offset, cuts>>

\* in_place_all_steps_completed.
all_steps_completed == journal' = 0

\* in_place_process_adjustment: the image, the segment or only the chunk ends.
EndImage ==
  /\ state = "adjustment"
  /\ ToAddress = to_size
  /\ all_steps_completed
  /\ state' = "done"
  /\ UNCHANGED <<patch, flash, ongoing_step, shifting, index, readerVars, cuts>>

EndSegment ==
  /\ state = "adjustment"
  /\ ToAddress # to_size
  /\ segment_pos = SegmentSize(index)
  /\ NextStep
  /\ index' = index + 1
  /\ state' = "dfpatch_size"
  /\ UNCHANGED <<patch, flash, shifting, readerVars, cuts>>

EndChunk ==
  /\ state = "adjustment"
  /\ ToAddress # to_size
  /\ segment_pos # SegmentSize(index)
  /\ from_offset' = from_offset + Here.adjust
  /\ chunk' = chunk + 1
  /\ state' = "diff_size"
  /\ UNCHANGED <<patch, flash, journal, ongoing_step, shifting, index, chunk_size,
                 segment_pos, cuts>>

-----------------------------------------------------------------------------
\* A step of detools_apply_in_place.
Step ==
  \/ ReadHeader \/ ShiftErase \/ ShiftCopy \/ ShiftNext
  \/ BeginSegment \/ ReadSize \/ EndData \/ DiffData \/ ExtraData
  \/ EndImage \/ EndSegment \/ EndChunk

\* The cells the next flash operation would change, which a cut may tear.
Torn ==
  IF is_step_completed THEN {}
  ELSE CASE state = "shift_erase"  -> WriteAddress..(WriteAddress + segment_size - 1)
         [] state = "dfpatch_size" -> SegmentCells(index)
         [] state = "shift_copy" /\ shifting.cell < segment_size ->
              {WriteAddress + shifting.cell}
         [] state \in {"diff_data", "extra_data"} /\ chunk_size > 0 -> {ToAddress}
         [] OTHER -> {}

\* Power fails, or a flash operation does and the run ends with an error: what
\* that operation was changing is undone, or done, or garbage.  The caller runs
\* detools_apply_in_place afresh.  Not after "done": a cut between the journal's
\* reset and the caller's taking note of it is InPlaceRerun's.
Cut ==
  /\ state \notin {"init", "done"}
  /\ cuts < MaxCuts
  /\ cuts' = cuts + 1
  /\ flash' \in {flash, [a \in Address |-> IF a \in Torn THEN Garbage ELSE flash[a]]}
  /\ state' = "init"
  /\ UNCHANGED <<patch, journal, ongoing_step, shifting, index, readerVars>>

Init ==
  /\ patch \in Patches
  /\ flash = [a \in Address |-> IF a < from_size THEN Old(a) ELSE Erased]
  /\ journal = 0
  /\ state = "init"
  /\ ongoing_step = 1
  /\ shifting = [segment |-> 0, cell |-> 0]
  /\ index = 0
  /\ chunk = 1 /\ chunk_size = 0 /\ from_offset = 0 /\ segment_pos = 0
  /\ cuts = 0

Next == Step \/ Cut

Spec == Init /\ [][Next]_vars

\* A run that is not interrupted goes on.
FairSpec == Spec /\ WF_vars(Step)

-----------------------------------------------------------------------------
(* What the apply promises.                                                  *)

Steps == number_of_segments + to_segments

\* The steps that are not journaled can still be taken: what each reads is where
\* it will look for it, byte for byte.  The old image is moved top down and
\* consumed bottom up so that no step, cut short or repeated, spoils what a later
\* one, or itself, needs (in_place_shift_memory, in_place_process_dfpatch_size).
SourcesIntact ==
  state # "done" =>
    /\ \A k \in 0..(number_of_segments - 1) :
         number_of_segments - k > journal =>
           \A a \in (k * segment_size)..((k + 1) * segment_size - 1) :
             a < from_size => flash[a] = Old(a)
    /\ journal >= number_of_segments =>
         \A i \in 0..(to_segments - 1) :
           number_of_segments + i + 1 > journal =>
             \A a \in Sources(patch, i) : flash[a] = Old(a - shift_size)

\* A journaled segment of the new image is there, and stays there: a run that
\* resumes skips it (in_place_mem_write and in_place_mem_erase of a completed step).
JournaledIsWritten ==
  \A i \in 0..(to_segments - 1) :
    journal >= number_of_segments + i + 1 => \A a \in SegmentCells(i) : flash[a] = New(a)

ImageComplete == \A a \in 0..(to_size - 1) : flash[a] = New(a)

\* Success is reported for the new image and nothing else, however often the run
\* was cut short ("a step journal makes it resumable across reboot",
\* detools_apply.h:55).
DoneIsTarget == state = "done" => ImageComplete

\* "Forward-only resume journal" (detools_apply.h:67): however often the run is cut
\* and begun anew it goes forward one step at a time, skips none, takes none back,
\* and is reset only when the image is complete.
JournalForward ==
  [][journal' \in {journal, journal + 1} \/ (journal' = 0 /\ ImageComplete)]_vars

\* With finitely many cuts the apply ends, with the new image.
EventuallyApplied == <>(state = "done" /\ ImageComplete)

-----------------------------------------------------------------------------
(* Why it keeps its promises: the invariant the proofs rest on.              *)

ShiftStates == {"shift_erase", "shift_copy"}
ReaderStates == {"diff_size", "diff_data", "extra_size", "extra_data", "adjustment"}
SegmentStates == {"dfpatch_size"} \cup ReaderStates
AtWork == ShiftStates \cup SegmentStates

\* The types, and which step is under way: every step before it is journaled.
StepIsKnown ==
  /\ patch \in Patches
  /\ DOMAIN flash = Address
  /\ state \in {"init", "done"} \cup AtWork
  /\ journal \in 0..(Steps - 1)
  /\ state \in AtWork => ongoing_step - 1 <= journal
  /\ state \in ShiftStates =>
       /\ shifting \in [segment : 0..(number_of_segments - 1), cell : 0..segment_size]
       /\ state = "shift_erase" => shifting.cell = 0
       /\ ongoing_step = number_of_segments - shifting.segment
       /\ index = 0
  /\ state \in SegmentStates =>
       /\ index \in 0..(to_segments - 1)
       /\ ongoing_step = number_of_segments + index + 1

\* What is left of the diff or the extra data of the chunk the reader is at.
DiffLeft == IF state = "diff_data" THEN chunk_size ELSE IF state = "diff_size" THEN Here.diff ELSE 0
ExtraLeft ==
  IF state = "extra_data" THEN chunk_size ELSE IF state = "adjustment" THEN 0 ELSE Here.extra

\* The reader's offsets are those the patch was made for.
ReaderIsAtItsPlace ==
  state \in ReaderStates =>
    /\ chunk \in 1..Len(patch[index + 1])
    /\ DiffLeft \in 0..Here.diff /\ ExtraLeft \in 0..Here.extra
    /\ from_offset = SourceOf(patch, index)[chunk] + Here.diff - DiffLeft
    /\ segment_pos = FilledBefore(patch, index)[chunk]
                       + (Here.diff - DiffLeft) + (Here.extra - ExtraLeft)

\* By how far the journaled steps have moved, and then overwritten, the old image.
MovedFrom == (number_of_segments - journal) * segment_size
WrittenTo == (journal - number_of_segments) * segment_size
KeptFrom == IF journal < number_of_segments THEN shift_size + MovedFrom
                                            ELSE FromBase(journal - number_of_segments)

RegionIsInOrder ==
  state # "done" =>
    /\ \A a \in 0..(MovedFrom - 1) : a < from_size => flash[a] = Old(a)
    /\ \A a \in KeptFrom..(OldEnd - 1) : flash[a] = Old(a - shift_size)
    /\ \A a \in 0..(WrittenTo - 1) : flash[a] = New(a)

\* The step under way, unless it is skipped: what it did, and erased before.
StepIsInOrder ==
  /\ state = "shift_copy" /\ ~is_step_completed =>
       \A c \in 0..(segment_size - 1) :
         IF c < shifting.cell
         THEN ReadAddress + c < from_size =>
                flash[WriteAddress + c] = Old(ReadAddress + c)
         ELSE flash[WriteAddress + c] = Erased
  /\ state \in ReaderStates /\ ~is_step_completed =>
       \A c \in 0..(SegmentSize(index) - 1) :
         flash[index * segment_size + c] =
           IF c < segment_pos THEN New(index * segment_size + c) ELSE Erased

IInv ==
  /\ StepIsKnown /\ ReaderIsAtItsPlace /\ RegionIsInOrder /\ StepIsInOrder
  /\ state = "done" => journal = 0 /\ ImageComplete

=============================================================================
