-------------------------- MODULE SequentialApply ---------------------------
(***************************************************************************)
(* detools_apply: the patch is handed to the decoder in chunks, the bytes  *)
(* it decompresses to are sizes and data by turns, and the image they make *)
(* of the base goes to the sink in pieces.  A step reads one byte of a     *)
(* size or writes one piece; in which call of process_once it is taken     *)
(* cannot be told, for reading a chunk cannot fail.  Heatshrink is left    *)
(* out, and so are patches whose sizes are negative.                       *)
(***************************************************************************)
EXTENDS Integers, Sequences

CONSTANTS
  ChunkLen,  \* 512
  PieceLen,  \* 128
  Base,      \* the bytes of the current firmware
  Updates    \* records: a patch, the image it stands for, and whether it is sound

ASSUME HeaderFitsChunk == ChunkLen \in Nat /\ ChunkLen >= 6 /\ PieceLen \in Nat \ {0}

VARIABLES
  update,       \* the patch that is applied
  patch_offset, \* what the decoder was handed of it
  chunk,        \* what it has not read of the last chunk
  state, compression, reader,
  num,          \* a size as far as it was read
  to_size,
  chunk_size,   \* what is left of the running diff or extra data
  base_pos,
  sink,         \* what the sink took; its length is to_offset and bytes_written()
  failed,       \* the base or the sink reported an error
  result

applyVars == <<update, patch_offset, chunk, state, compression, reader, num, to_size, chunk_size,
          base_pos, sink, failed, result>>
io == <<update, patch_offset, base_pos, sink, failed>>
header == <<compression, to_size>>

\* The codes of detools.h; a call that has not returned is NOT_DONE.
Running == -2
NotImplemented == -1
BadPatchType == -3
BadCompression == -4
CorruptPatch == -9
IoFailed == -10
ShortHeader == -18
NotEnoughData == -19
Overflow == -25
BadCrleKind == -26
NoNum == [bits |-> 0, value |-> 0, negative |-> FALSE]
NoReader == [kind |-> "unset"]
NoneReader(n) == [kind |-> "none", left |-> n]
CrleReader == [kind |-> "crle", mode |-> "idle", size |-> NoNum, left |-> 0, value |-> 0]
Least(a, b) == IF a < b THEN a ELSE b

ApplyInit ==
  /\ update \in Updates
  /\ patch_offset = 0 /\ chunk = <<>>
  /\ state = "init" /\ compression = 0 /\ reader = NoReader /\ num = NoNum
  /\ to_size = 0 /\ chunk_size = 0 /\ base_pos = 0
  /\ sink = <<>> /\ failed = FALSE /\ result = Running

-----------------------------------------------------------------------------
(* The loop of callbacks_process.                                            *)

Exhausted == chunk = <<>> /\ patch_offset = Len(update.patch)
Turn_WithData == result = Running /\ chunk # <<>>
Turn == result = Running /\ (chunk # <<>> \/ Exhausted)

\* The next chunk, or a part of one at the end.
PatchRead ==
  /\ result = Running /\ chunk = <<>> /\ patch_offset < Len(update.patch)
  /\ LET n == Least(Len(update.patch) - patch_offset, ChunkLen)
     IN  /\ chunk' = SubSeq(update.patch, patch_offset + 1, patch_offset + n)
         /\ patch_offset' = patch_offset + n
  /\ UNCHANGED <<update, state, reader, num, chunk_size, base_pos, sink, failed, result, header>>

\* A negative result ends the loop; finalize only destroys the reader then.
Fail(code) ==
  /\ state' = "failed" /\ result' = code
  /\ UNCHANGED <<chunk, reader, num, chunk_size, header>>

\* What follows the image is read and dropped.
Trailing ==
  /\ result = Running /\ state = "done" /\ chunk # <<>>
  /\ chunk' = <<>>
  /\ UNCHANGED <<state, reader, num, chunk_size, result, header, io>>

DestroyOk_Always == TRUE
DestroyOk == reader.kind = "none" => reader.left = 0

Finalize ==
  /\ Turn /\ state = "done" /\ Exhausted
  /\ result' = IF DestroyOk THEN to_size ELSE CorruptPatch
  /\ UNCHANGED <<chunk, state, reader, num, chunk_size, header, io>>

-----------------------------------------------------------------------------
(* Sizes: little endian, seven bits a byte, six and a sign in the first.     *)

More(b) == b >= 128
Overlong(n) == n.bits > 0 /\ n.bits + 7 > 32
UsizeByte(n, b) == [n EXCEPT !.bits = @ + 7, !.value = @ + (b % 128) * 2 ^ n.bits]
SizeByte(n, b) ==
  IF n.bits = 0 THEN [bits |-> 6, value |-> b % 64, negative |-> (b \div 64) % 2 = 1]
                ELSE UsizeByte(n, b)
Signed(n) == IF n.negative THEN -n.value ELSE n.value

FixedHeader ==
  /\ Turn /\ state = "init" /\ UNCHANGED io
  /\ \/ chunk = <<>> /\ Fail(ShortHeader)
     \/ chunk # <<>> /\ (Head(chunk) \div 16) % 8 # 0 /\ Fail(BadPatchType)
     \/ /\ chunk # <<>> /\ (Head(chunk) \div 16) % 8 = 0
        /\ compression' = Head(chunk) % 16 /\ state' = "to_size" /\ chunk' = Tail(chunk)
        /\ UNCHANGED <<reader, num, chunk_size, to_size, result>>

\* The reader is set up with what the header leaves of the patch.
HeaderSize ==
  /\ Turn /\ state = "to_size" /\ UNCHANGED io
  /\ \/ chunk = <<>> /\ Fail(NotEnoughData)
     \/ chunk # <<>> /\ Overlong(num) /\ Fail(Overflow)
     \/ /\ chunk # <<>> /\ ~Overlong(num) /\ More(Head(chunk))
        /\ num' = SizeByte(num, Head(chunk)) /\ chunk' = Tail(chunk)
        /\ UNCHANGED <<state, reader, chunk_size, result, header>>
     \/ /\ chunk # <<>> /\ ~Overlong(num) /\ ~More(Head(chunk)) /\ compression \notin {0, 2}
        /\ Fail(BadCompression)
     \/ /\ chunk # <<>> /\ ~Overlong(num) /\ ~More(Head(chunk)) /\ compression \in {0, 2}
        /\ chunk' = Tail(chunk) /\ num' = NoNum
        /\ to_size' = SizeByte(num, Head(chunk)).value
        /\ reader' = IF compression = 2 THEN CrleReader
                     ELSE NoneReader(Len(update.patch) - (patch_offset - Len(Tail(chunk))))
        /\ state' = IF to_size' > 0 THEN "dfpatch_size" ELSE "done"
        /\ UNCHANGED <<compression, chunk_size, result>>

-----------------------------------------------------------------------------
(* Decompression.                                                            *)

SizeStates == {"dfpatch_size", "diff_size", "extra_size", "adjustment"}
DataStates == {"diff_data", "extra_data"}
Wants == IF state \in SizeStates THEN 1
         ELSE IF state \in DataStates THEN Least(PieceLen, chunk_size) ELSE 0
Needs == Turn /\ Wants > 0

\* How many bytes the reader gives at once.
Gives ==
  IF reader.kind = "none" THEN Least(Wants, Len(chunk))
  ELSE IF reader.mode = "scattered" THEN Least(Wants, Least(reader.left, Len(chunk)))
  ELSE IF reader.mode = "repeated" THEN Least(Wants, reader.left) ELSE 0

Repeats == reader.kind = "crle" /\ reader.mode = "repeated"
Data == IF Repeats THEN [k \in 1..Gives |-> reader.value] ELSE SubSeq(chunk, 1, Gives)
Advance(n) ==
  IF reader.kind = "crle" /\ reader.left = n THEN CrleReader ELSE [reader EXCEPT !.left = @ - n]

Goes(s) == state' = s /\ result' = result
Refuse(code) == state' = "failed" /\ result' = code

BeyondPatch == reader.kind = "none" /\ Wants > reader.left
Decompress ==
  /\ Needs /\ ~BeyondPatch /\ Gives > 0
  /\ reader' = Advance(Gives)
  /\ chunk' = IF Repeats THEN chunk ELSE SubSeq(chunk, Gives + 1, Len(chunk))

\* A byte of a CRLE run's head: its kind, its length, or the byte it repeats.
CrleHead(b) ==
  CASE reader.mode = "idle" -> [CrleReader EXCEPT !.mode = IF b = 0 THEN "size" ELSE "repetitions"]
    [] reader.mode = "value" -> [reader EXCEPT !.mode = "repeated", !.value = b]
    [] OTHER -> LET n == UsizeByte(reader.size, b) IN
                IF More(b) THEN [reader EXCEPT !.size = n]
                ELSE [reader EXCEPT !.left = n.value,
                                    !.mode = IF @ = "size" THEN "scattered" ELSE "value"]

DecompressHead ==
  /\ Needs /\ reader.kind = "crle" /\ reader.mode \notin {"scattered", "repeated"} /\ chunk # <<>>
  /\ chunk' = Tail(chunk)
  /\ \/ reader.mode = "idle" /\ Head(chunk) \notin {0, 1}
        /\ Refuse(BadCrleKind) /\ UNCHANGED reader
     \/ reader.mode \in {"size", "repetitions"} /\ Overlong(reader.size)
        /\ Refuse(Overflow) /\ UNCHANGED reader
     \/ /\ reader.mode = "idle" => Head(chunk) \in {0, 1}
        /\ ~Overlong(reader.size)
        /\ reader' = CrleHead(Head(chunk)) /\ UNCHANGED <<state, result>>
  /\ UNCHANGED <<num, chunk_size, header, io>>

Starve ==
  /\ Needs /\ UNCHANGED io
  /\ \/ BeyondPatch /\ Fail(CorruptPatch)
     \/ ~BeyondPatch /\ Gives = 0 /\ Exhausted /\ Fail(NotEnoughData)

-----------------------------------------------------------------------------
(* Sizes and data of the stream.                                             *)

UnpackTooMuch ==
  /\ state \in SizeStates /\ Decompress /\ Overlong(num)
  /\ Refuse(Overflow)
  /\ UNCHANGED <<num, chunk_size, header, io>>

UnpackMore ==
  /\ state \in SizeStates /\ Decompress /\ ~Overlong(num) /\ More(Data[1])
  /\ num' = SizeByte(num, Data[1])
  /\ UNCHANGED <<state, chunk_size, result, header, io>>

\* The last byte of a size: the handler of the state takes it.
Unpack(s) ==
  /\ state = s /\ Decompress /\ ~Overlong(num) /\ ~More(Data[1])
  /\ num' = NoNum
Unpacked == Signed(SizeByte(num, Data[1]))

DfpatchSize ==
  /\ Unpack("dfpatch_size")
  /\ IF Unpacked > 0 THEN Refuse(NotImplemented) ELSE Goes("diff_size")
  /\ UNCHANGED <<chunk_size, header, io>>

DataSize ==
  /\ \/ Unpack("diff_size") \/ Unpack("extra_size")
  /\ IF Len(sink) + Unpacked > to_size THEN Refuse(CorruptPatch) /\ UNCHANGED chunk_size
     ELSE /\ chunk_size' = Unpacked
          /\ Goes(IF state = "diff_size" THEN "diff_data" ELSE "extra_data")
  /\ UNCHANGED <<header, io>>

NextPos_Absolute == Unpacked
NextPos == base_pos + Unpacked

Adjustment ==
  /\ Unpack("adjustment")
  /\ IF NextPos < 0 THEN Refuse(IoFailed) /\ UNCHANGED base_pos
     ELSE base_pos' = NextPos /\ Goes(IF Len(sink) = to_size THEN "done" ELSE "diff_size")
  /\ UNCHANGED <<chunk_size, header, update, patch_offset, sink, failed>>

EndData ==
  /\ Turn /\ state \in DataStates /\ chunk_size = 0
  /\ Goes(IF state = "diff_data" THEN "extra_size" ELSE "adjustment")
  /\ UNCHANGED <<chunk, reader, num, chunk_size, header, io>>

\* What a piece writes: the data, added to the base in a diff.
Piece ==
  IF state = "extra_data" THEN Data
  ELSE [k \in 1..Gives |-> (Data[k] + Base[base_pos + k]) % 256]
BaseReadable == state = "extra_data" \/ base_pos + Gives <= Len(Base)

\* The running offsets move before the sink is asked.
ProcessData ==
  /\ state \in DataStates /\ Decompress
  /\ \/ /\ BaseReadable /\ failed' = failed
        /\ sink' = sink \o Piece
        /\ UNCHANGED <<state, result>>
     \/ /\ failed' = TRUE           \* the base cannot be read, or the sink refuses
        /\ sink' = sink
        /\ Refuse(IoFailed)
  /\ chunk_size' = chunk_size - Gives
  /\ base_pos' = IF state = "diff_data" THEN base_pos + Gives ELSE base_pos
  /\ UNCHANGED <<num, header, update, patch_offset>>

ApplyNext ==
  \/ PatchRead \/ Trailing \/ Finalize \/ FixedHeader \/ HeaderSize
  \/ DecompressHead \/ Starve \/ UnpackTooMuch \/ UnpackMore
  \/ DfpatchSize \/ DataSize \/ Adjustment \/ EndData \/ ProcessData

ApplySpec == ApplyInit /\ [][ApplyNext]_applyVars

\* detools_apply is one call, and it goes on.
FairApplySpec == ApplySpec /\ WF_applyVars(ApplyNext)

-----------------------------------------------------------------------------
\* The sink never holds anything but the beginning of the image the patch stands
\* for, wherever chunks, pieces and runs are cut and whatever fails
\* (detools_apply.h:17-22: the image is written sequentially).
SinkIsPrefix ==
  Len(sink) <= Len(update.image) /\ sink = SubSeq(update.image, 1, Len(sink))

Succeeded == result >= 0

\* The call succeeds when the patch is sound and nothing failed, and only then, with
\* the image complete: never on a patch cut short (detools_apply.h:46-51).
ResultIsTrue ==
  result # Running =>
    /\ Succeeded <=> update.sound /\ ~failed
    /\ Succeeded => sink = update.image /\ result = Len(sink)

\* The call returns, on every patch (detools.c:2053-2070).
Returns == <>(result # Running)
=============================================================================
