------------------------ MODULE SequentialApplyProofs ------------------------
(***************************************************************************)
(* detools_apply on the patches detools writes, whole, cut short or        *)
(* followed by other bytes, for every patch, every base and every way to   *)
(* cut it into chunks and pieces.                                          *)
(***************************************************************************)
EXTENDS PatchFormat, SequenceTheorems, TLAPS

-----------------------------------------------------------------------------
(* The inductive invariant: where in the layout of the patch the decoder is. *)

\* A number of which k bytes are read.
NumSeven(s, place, k) == [bits |-> 7 * k, value |-> Usize(s, place, k), negative |-> FALSE]
NumSix(s, place, k) ==
  IF k = 0 THEN NoNum
  ELSE [bits |-> 7 * k - 1, value |-> Magnitude(s, place, k), negative |-> Negative(s, place)]

\* All but the last byte of a size at most is read, and num is what was read.
HalfRead(s, place, end, n, at) ==
  \E k \in 0..(end - place - 1) : at = place + k /\ n = NumSix(s, place, k)

\* What the decoder has read of the patch; the chunk is what follows.
Read == patch_offset - Len(chunk)

ChunkIsNext ==
  /\ update.patch \in Seq(Byte) /\ chunk \in Seq(Byte)
  /\ patch_offset \in 0..Len(update.patch) /\ Len(chunk) <= patch_offset
  /\ \A k \in 1..Len(chunk) : chunk[k] = update.patch[Read + k]

\* The CRLE reader is in a run, at a place of the patch and one of the stream.
InRun(L, run, r, at, sp) ==
  LET head == run.place + 1 IN
  /\ r = [kind |-> "crle", mode |-> r.mode, size |-> r.size, left |-> r.left, value |-> r.value]
  /\ \/ r = CrleReader /\ at = run.place /\ sp = run.from
     \/ /\ r.mode = (IF L.whole[head] = 0 THEN "size" ELSE "repetitions") /\ sp = run.from
        /\ \E k \in 0..(run.data - head - 1) : at = head + k /\ r.size = NumSeven(L.whole, head, k)
     \/ /\ r.mode = "value" /\ L.whole[head] = 1
        /\ at = run.data /\ r.left = run.to - run.from /\ sp = run.from
     \/ /\ r.mode = "scattered" /\ L.whole[head] = 0
        /\ sp \in run.from..(run.to - 1) /\ r.left = run.to - sp /\ at = run.data + (sp - run.from)
     \/ /\ r.mode = "repeated" /\ L.whole[head] = 1
        /\ sp \in run.from..(run.to - 1) /\ r.left = run.to - sp /\ at = run.end
        /\ r.value = L.whole[run.end]

ReaderAt(L, len, r, at, sp) ==
  \/ L.whole[1] = 0 /\ r = NoneReader(len - at) /\ at = L.header + sp
  \/ L.whole[1] = 2 /\ \E j \in 1..Len(L.runs) : InRun(L, L.runs[j], r, at, sp)

\* The decoder is in a part: sp bytes of the stream and t of the image are behind it.
InPart(L, p, st, n, c, bp, t, sp) ==
  \/ /\ st = "diff_size" /\ HalfRead(L.stream, p.diff_size, p.diff_data, n, sp)
     /\ bp = p.base /\ t = p.to
  \/ /\ st = "diff_data" /\ n = NoNum /\ sp \in p.diff_data..p.extra_size
     /\ c = p.extra_size - sp /\ bp = p.base + (sp - p.diff_data) /\ t = p.to + (sp - p.diff_data)
  \/ /\ st = "extra_size" /\ HalfRead(L.stream, p.extra_size, p.extra_data, n, sp)
     /\ bp = p.base + Diff(p) /\ t = p.to + Diff(p)
  \/ /\ st = "extra_data" /\ n = NoNum /\ sp \in p.extra_data..p.adjustment
     /\ c = p.adjustment - sp /\ bp = p.base + Diff(p) /\ t = p.to + Diff(p) + (sp - p.extra_data)
  \/ /\ st = "adjustment" /\ HalfRead(L.stream, p.adjustment, p.end, n, sp)
     /\ bp = p.base + Diff(p) /\ t = p.to + Diff(p) + Extra(p)

StreamAt(L, st, n, c, bp, t, sp) ==
  \/ st = "dfpatch_size" /\ n = NoNum /\ bp = 0 /\ t = 0 /\ sp = 0
  \/ \E i \in 1..Len(L.parts) : InPart(L, L.parts[i], st, n, c, bp, t, sp)

SinkIsGood ==
  /\ sink \in Seq(Byte) /\ Len(sink) <= Len(update.image)
  /\ \A k \in 1..Len(sink) : sink[k] = update.image[k]

InStream(L, sp) ==
  /\ to_size = Len(update.image) /\ update.image # <<>> /\ sp \in 0..(Len(L.stream) - 1)
  /\ ReaderAt(L, Len(update.patch), reader, Read, sp)
  /\ StreamAt(L, state, num, chunk_size, base_pos, Len(sink), sp)

Reading(L) ==
  \/ state = "init" /\ Read = 0 /\ num = NoNum /\ base_pos = 0 /\ sink = <<>>
  \/ /\ state = "to_size" /\ compression = L.whole[1] /\ base_pos = 0 /\ sink = <<>>
     /\ HalfRead(L.whole, 1, L.header, num, Read)
  \/ /\ state = "done" /\ to_size = Len(sink) /\ Len(sink) = Len(update.image)
     /\ DestroyOk <=> update.sound
  \/ \E sp : InStream(L, sp)

At(L) ==
  /\ ChunkIsNext /\ SinkIsGood /\ ResultIsTrue
  /\ result = Running => ~failed /\ Reading(L)

ApplyInv == \A L : WrittenAs(update, L) => At(L)

-----------------------------------------------------------------------------
(* Numbers.                                                                  *)

\* Seven bits of a byte, or six, are a number.
LEMMA LowBits == \A b \in Byte : Seven(b) \in Nat /\ Six(b) \in Nat
BY DEF Byte, Seven, Six

\* The digits of a number with one more byte.
LEMMA DigitMore ==
  ASSUME NEW s, NEW place \in Nat, NEW k \in 0..3, \A j \in 1..(k + 1) : s[place + j] \in Byte
  PROVE  /\ Seven(s[place + k + 1]) \in Nat /\ Digit(s, place, k, k + 1) = 0
         /\ \A j \in 1..4 :
              /\ Digit(s, place, k, j) \in Nat
              /\ Digit(s, place, k + 1, j)
                   = IF j = k + 1 THEN Seven(s[place + k + 1]) ELSE Digit(s, place, k, j)
<1>1. \A j \in 1..(k + 1) : Seven(s[place + j]) \in Nat
  BY LowBits, Zenon
<1>2. k + 1 \in 1..(k + 1) /\ place + k + 1 = place + (k + 1)
  BY SMT
<1>3. Seven(s[place + k + 1]) \in Nat
  <2>1. Seven(s[place + (k + 1)]) \in Nat
    BY <1>1, <1>2, Zenon
  <2> QED
    BY <1>2, <2>1, Zenon
<1>4. ASSUME NEW j \in 1..4
      PROVE  /\ Digit(s, place, k, j) \in Nat
             /\ Digit(s, place, k + 1, j)
                  = IF j = k + 1 THEN Seven(s[place + k + 1]) ELSE Digit(s, place, k, j)
  <2>1. CASE j <= k
    <3>1. Seven(s[place + j]) \in Nat
      BY <1>1, <2>1, SMT
    <3> QED
      BY <2>1, <3>1, SMT DEF Digit
  <2>2. CASE j = k + 1
    <3>1. place + j = place + k + 1
      BY <2>2, SMT
    <3> QED
      BY <2>2, <3>1, SMT DEF Digit
  <2>3. CASE j > k + 1
    BY <2>3, SMT DEF Digit
  <2> QED
    BY <2>1, <2>2, <2>3
<1>5. Digit(s, place, k, k + 1) = 0
  BY SMT DEF Digit
<1> QED
  BY <1>3, <1>4, <1>5

\* The next byte of a size, and of a number of CRLE.
LEMMA RecordMore ==
  ASSUME NEW x, NEW v, NEW g, NEW b
  PROVE  UsizeByte([bits |-> x, value |-> v, negative |-> g], b)
           = [bits |-> x + 7, value |-> v + Seven(b) * 2 ^ x, negative |-> g]
<1> DEFINE n == [bits |-> x, value |-> v, negative |-> g]
           m == [bits |-> x + 7, value |-> v, negative |-> g]
<1>1. n.bits = x /\ n.value = v
  OBVIOUS
<1>2. [n EXCEPT !.bits = n.bits + 7] = m
  BY <1>1
<1>3. \A y : [m EXCEPT !.value = y] = [bits |-> x + 7, value |-> y, negative |-> g]
  OBVIOUS
<1> HIDE DEF n, m
<1>4. UsizeByte(n, b)
        = [[n EXCEPT !.bits = n.bits + 7] EXCEPT !.value = n.value + Seven(b) * 2 ^ n.bits]
  BY Zenon DEF UsizeByte, Seven
<1>5. UsizeByte(n, b) = [m EXCEPT !.value = n.value + Seven(b) * 2 ^ n.bits]
  BY <1>2, <1>4, Zenon
<1> QED
  BY <1>1, <1>3, <1>5 DEF n

\* One more byte of a size is the number with one more digit.
LEMMA SixMore ==
  ASSUME NEW s \in Seq(Byte), NEW place \in Nat, NEW k \in 0..3, place + k + 1 <= Len(s)
  PROVE  /\ ~Overlong(NumSix(s, place, k))
         /\ SizeByte(NumSix(s, place, k), s[place + k + 1]) = NumSix(s, place, k + 1)
<1>1. \A j \in 1..(k + 1) : s[place + j] \in Byte
  <2>1. \A j \in 1..(k + 1) : place + j \in 1..Len(s)
    OBVIOUS
  <2> QED
    BY <2>1, ElementOfSeq
<1>2. ~Overlong(NumSix(s, place, k))
  <2>1. CASE k = 0
    BY <2>1, SMT DEF Overlong, NumSix, NoNum
  <2>2. CASE k # 0
    <3>1. NumSix(s, place, k).bits = 7 * k - 1
      BY <2>2, SMT DEF NumSix
    <3> QED
      BY <2>2, <3>1, SMT DEF Overlong
  <2> QED
    BY <2>1, <2>2
<1>3. PICK a \in Nat, b \in Nat, c \in Nat, d \in Nat :
        /\ Digit(s, place, k, 1) = a /\ Digit(s, place, k, 2) = b
        /\ Digit(s, place, k, 3) = c /\ Digit(s, place, k, 4) = d
  <2>1. 1 \in 1..4 /\ 2 \in 1..4 /\ 3 \in 1..4 /\ 4 \in 1..4
    BY SMT
  <2>2. \A j \in 1..4 : Digit(s, place, k, j) \in Nat
    BY <1>1, DigitMore, Zenon
  <2> QED
    BY <2>1, <2>2, Zenon
<1>4. PICK x \in Nat : Seven(s[place + k + 1]) = x
  <2>1. k + 1 \in 1..(k + 1) /\ place + k + 1 = place + (k + 1)
    BY SMT
  <2>2. Seven(s[place + (k + 1)]) \in Nat
    BY <1>1, <2>1, LowBits, Zenon
  <2> QED
    BY <2>1, <2>2
<1>5. \A j \in 1..4 : Digit(s, place, k + 1, j) = IF j = k + 1 THEN x ELSE Digit(s, place, k, j)
  <2>1. \A j \in 1..4 : Digit(s, place, k + 1, j)
                            = IF j = k + 1 THEN Seven(s[place + k + 1]) ELSE Digit(s, place, k, j)
    BY <1>1, DigitMore, Zenon
  <2> QED
    BY <1>4, <2>1, Zenon
<1>6. Digit(s, place, k, k + 1) = 0
  BY <1>1, DigitMore, Zenon
<1>7. PICK e \in Nat : Six(s[place + 1]) = e
  <2>1. s[place + 1] \in Byte
    BY <1>1, SMT
  <2> QED
    BY <2>1, LowBits, Zenon
<1>8. CASE k = 0
  <2>1. /\ Digit(s, place, 1, 1) = x /\ Digit(s, place, 1, 2) = b
        /\ Digit(s, place, 1, 3) = c /\ Digit(s, place, 1, 4) = d
    BY <1>5, <1>3, <1>8, SMT
  <2>2. a = 0 /\ Seven(s[place + 1]) = x
    BY <1>3, <1>4, <1>6, <1>8, SMT
  <2>3. b = 0 /\ c = 0 /\ d = 0
    BY <1>3, <1>8, SMT DEF Digit
  <2>4. Magnitude(s, place, 1) = Six(s[place + 1])
    BY <1>7, <2>1, <2>3, SMT DEF Magnitude
  <2> QED
    BY <1>2, <1>8, <2>4, SMT DEF SizeByte, NumSix, NoNum, Negative, Six
<1>9. CASE k = 1
  <2>1. /\ Digit(s, place, 2, 1) = a /\ Digit(s, place, 2, 2) = x
        /\ Digit(s, place, 2, 3) = c /\ Digit(s, place, 2, 4) = d
    BY <1>5, <1>3, <1>9, SMT
  <2>2. b = 0 /\ Seven(s[place + 2]) = x
    BY <1>3, <1>4, <1>6, <1>9, SMT
  <2>3. /\ Digit(s, place, 1, 1) = a /\ Digit(s, place, 1, 2) = b
        /\ Digit(s, place, 1, 3) = c /\ Digit(s, place, 1, 4) = d
    BY <1>3, <1>9, SMT
  <2>4. Magnitude(s, place, 2) = Magnitude(s, place, 1) + x * 64
    <3>1. Magnitude(s, place, 2) = e + 64 * (x + 128 * (c + 128 * d))
      BY <1>7, <2>1, Zenon DEF Magnitude
    <3>2. Magnitude(s, place, 1) = e + 64 * (b + 128 * (c + 128 * d))
      BY <1>7, <2>3, Zenon DEF Magnitude
    <3> QED
      BY <2>2, <3>1, <3>2, SMT
  <2>5. /\ NumSix(s, place, 1)
             = [bits |-> 6, value |-> Magnitude(s, place, 1), negative |-> Negative(s, place)]
        /\ NumSix(s, place, 2)
             = [bits |-> 6 + 7, value |-> Magnitude(s, place, 2), negative |-> Negative(s, place)]
    BY SMT DEF NumSix
  <2>6. UsizeByte([bits |-> 6, value |-> Magnitude(s, place, 1), negative |-> Negative(s, place)],
                  s[place + 2])
          = [bits |-> 6 + 7, value |-> Magnitude(s, place, 1) + Seven(s[place + 2]) * 2 ^ 6,
             negative |-> Negative(s, place)]
    BY RecordMore
  <2>7. UsizeByte(NumSix(s, place, 1), s[place + 2]) = NumSix(s, place, 2)
    <3>1. 2 ^ 6 = 64
      BY SMT
    <3>2. Magnitude(s, place, 1) + Seven(s[place + 2]) * 2 ^ 6 = Magnitude(s, place, 2)
      BY <2>2, <2>4, <3>1, SMT
    <3> QED
      BY <2>5, <2>6, <3>2, SMT
  <2>8. SizeByte(NumSix(s, place, 1), s[place + 2]) = UsizeByte(NumSix(s, place, 1), s[place + 2])
    BY <2>5, SMT DEF SizeByte
  <2> QED
    BY <1>2, <1>9, <2>7, <2>8, SMT
<1>10. CASE k = 2
  <2>1. /\ Digit(s, place, 3, 1) = a /\ Digit(s, place, 3, 2) = b
        /\ Digit(s, place, 3, 3) = x /\ Digit(s, place, 3, 4) = d
    BY <1>5, <1>3, <1>10, SMT
  <2>2. c = 0 /\ Seven(s[place + 3]) = x
    BY <1>3, <1>4, <1>6, <1>10, SMT
  <2>3. /\ Digit(s, place, 2, 1) = a /\ Digit(s, place, 2, 2) = b
        /\ Digit(s, place, 2, 3) = c /\ Digit(s, place, 2, 4) = d
    BY <1>3, <1>10, SMT
  <2>4. Magnitude(s, place, 3) = Magnitude(s, place, 2) + x * 8192
    <3>1. Magnitude(s, place, 3) = e + 64 * (b + 128 * (x + 128 * d))
      BY <1>7, <2>1, Zenon DEF Magnitude
    <3>2. Magnitude(s, place, 2) = e + 64 * (b + 128 * (c + 128 * d))
      BY <1>7, <2>3, Zenon DEF Magnitude
    <3> QED
      BY <2>2, <3>1, <3>2, SMT
  <2>5. /\ NumSix(s, place, 2)
             = [bits |-> 13, value |-> Magnitude(s, place, 2), negative |-> Negative(s, place)]
        /\ NumSix(s, place, 3)
             = [bits |-> 13 + 7, value |-> Magnitude(s, place, 3), negative |-> Negative(s, place)]
    BY SMT DEF NumSix
  <2>6. UsizeByte([bits |-> 13, value |-> Magnitude(s, place, 2), negative |-> Negative(s, place)],
                  s[place + 3])
          = [bits |-> 13 + 7, value |-> Magnitude(s, place, 2) + Seven(s[place + 3]) * 2 ^ 13,
             negative |-> Negative(s, place)]
    BY RecordMore
  <2>7. UsizeByte(NumSix(s, place, 2), s[place + 3]) = NumSix(s, place, 3)
    <3>1. 2 ^ 13 = 8192
      BY SMT
    <3>2. Magnitude(s, place, 2) + Seven(s[place + 3]) * 2 ^ 13 = Magnitude(s, place, 3)
      BY <2>2, <2>4, <3>1, SMT
    <3> QED
      BY <2>5, <2>6, <3>2, SMT
  <2>8. SizeByte(NumSix(s, place, 2), s[place + 3]) = UsizeByte(NumSix(s, place, 2), s[place + 3])
    BY <2>5, SMT DEF SizeByte
  <2> QED
    BY <1>2, <1>10, <2>7, <2>8, SMT
<1>11. CASE k = 3
  <2>1. /\ Digit(s, place, 4, 1) = a /\ Digit(s, place, 4, 2) = b
        /\ Digit(s, place, 4, 3) = c /\ Digit(s, place, 4, 4) = x
    BY <1>5, <1>3, <1>11, SMT
  <2>2. d = 0 /\ Seven(s[place + 4]) = x
    BY <1>3, <1>4, <1>6, <1>11, SMT
  <2>3. /\ Digit(s, place, 3, 1) = a /\ Digit(s, place, 3, 2) = b
        /\ Digit(s, place, 3, 3) = c /\ Digit(s, place, 3, 4) = d
    BY <1>3, <1>11, SMT
  <2>4. Magnitude(s, place, 4) = Magnitude(s, place, 3) + x * 1048576
    <3>1. Magnitude(s, place, 4) = e + 64 * (b + 128 * (c + 128 * x))
      BY <1>7, <2>1, Zenon DEF Magnitude
    <3>2. Magnitude(s, place, 3) = e + 64 * (b + 128 * (c + 128 * d))
      BY <1>7, <2>3, Zenon DEF Magnitude
    <3> QED
      BY <2>2, <3>1, <3>2, SMT
  <2>5. /\ NumSix(s, place, 3)
             = [bits |-> 20, value |-> Magnitude(s, place, 3), negative |-> Negative(s, place)]
        /\ NumSix(s, place, 4)
             = [bits |-> 20 + 7, value |-> Magnitude(s, place, 4), negative |-> Negative(s, place)]
    BY SMT DEF NumSix
  <2>6. UsizeByte([bits |-> 20, value |-> Magnitude(s, place, 3), negative |-> Negative(s, place)],
                  s[place + 4])
          = [bits |-> 20 + 7, value |-> Magnitude(s, place, 3) + Seven(s[place + 4]) * 2 ^ 20,
             negative |-> Negative(s, place)]
    BY RecordMore
  <2>7. UsizeByte(NumSix(s, place, 3), s[place + 4]) = NumSix(s, place, 4)
    <3>1. 2 ^ 20 = 1048576
      BY SMT
    <3>2. Magnitude(s, place, 3) + Seven(s[place + 4]) * 2 ^ 20 = Magnitude(s, place, 4)
      BY <2>2, <2>4, <3>1, SMT
    <3> QED
      BY <2>5, <2>6, <3>2, SMT
  <2>8. SizeByte(NumSix(s, place, 3), s[place + 4]) = UsizeByte(NumSix(s, place, 3), s[place + 4])
    BY <2>5, SMT DEF SizeByte
  <2> QED
    BY <1>2, <1>11, <2>7, <2>8, SMT
<1> QED
  BY <1>2, <1>8, <1>9, <1>10, <1>11

\* One more byte of a count of CRLE, likewise.
LEMMA SevenMore ==
  ASSUME NEW s \in Seq(Byte), NEW place \in Nat, NEW k \in 0..3, place + k + 1 <= Len(s)
  PROVE  /\ ~Overlong(NumSeven(s, place, k))
         /\ UsizeByte(NumSeven(s, place, k), s[place + k + 1]) = NumSeven(s, place, k + 1)
<1>1. \A j \in 1..(k + 1) : s[place + j] \in Byte
  <2>1. \A j \in 1..(k + 1) : place + j \in 1..Len(s)
    OBVIOUS
  <2> QED
    BY <2>1, ElementOfSeq
<1>2. ~Overlong(NumSeven(s, place, k))
  <2>1. CASE k = 0
    BY <2>1, SMT DEF Overlong, NumSeven
  <2>2. CASE k # 0
    <3>1. NumSeven(s, place, k).bits = 7 * k
      BY <2>2, SMT DEF NumSeven
    <3> QED
      BY <2>2, <3>1, SMT DEF Overlong
  <2> QED
    BY <2>1, <2>2
<1>3. PICK a \in Nat, b \in Nat, c \in Nat, d \in Nat :
        /\ Digit(s, place, k, 1) = a /\ Digit(s, place, k, 2) = b
        /\ Digit(s, place, k, 3) = c /\ Digit(s, place, k, 4) = d
  <2>1. 1 \in 1..4 /\ 2 \in 1..4 /\ 3 \in 1..4 /\ 4 \in 1..4
    BY SMT
  <2>2. \A j \in 1..4 : Digit(s, place, k, j) \in Nat
    BY <1>1, DigitMore, Zenon
  <2> QED
    BY <2>1, <2>2, Zenon
<1>4. PICK x \in Nat : Seven(s[place + k + 1]) = x
  <2>1. k + 1 \in 1..(k + 1) /\ place + k + 1 = place + (k + 1)
    BY SMT
  <2>2. Seven(s[place + (k + 1)]) \in Nat
    BY <1>1, <2>1, LowBits, Zenon
  <2> QED
    BY <2>1, <2>2
<1>5. \A j \in 1..4 : Digit(s, place, k + 1, j) = IF j = k + 1 THEN x ELSE Digit(s, place, k, j)
  <2>1. \A j \in 1..4 : Digit(s, place, k + 1, j)
                            = IF j = k + 1 THEN Seven(s[place + k + 1]) ELSE Digit(s, place, k, j)
    BY <1>1, DigitMore, Zenon
  <2> QED
    BY <1>4, <2>1, Zenon
<1>6. Digit(s, place, k, k + 1) = 0
  BY <1>1, DigitMore, Zenon
<1>7. CASE k = 0
  <2>1. /\ Digit(s, place, 1, 1) = x /\ Digit(s, place, 1, 2) = b
        /\ Digit(s, place, 1, 3) = c /\ Digit(s, place, 1, 4) = d
    BY <1>5, <1>3, <1>7, SMT
  <2>2. a = 0 /\ Seven(s[place + 1]) = x
    BY <1>3, <1>4, <1>6, <1>7, SMT
  <2>3. /\ Digit(s, place, 0, 1) = a /\ Digit(s, place, 0, 2) = b
        /\ Digit(s, place, 0, 3) = c /\ Digit(s, place, 0, 4) = d
    BY <1>3, <1>7, SMT
  <2>4. Usize(s, place, 1) = Usize(s, place, 0) + x * 1
    <3>1. Usize(s, place, 1) = x + 128 * (b + 128 * (c + 128 * d))
      BY <2>1, Zenon DEF Usize
    <3>2. Usize(s, place, 0) = a + 128 * (b + 128 * (c + 128 * d))
      BY <2>3, Zenon DEF Usize
    <3> QED
      BY <2>2, <3>1, <3>2, SMT
  <2>5. /\ NumSeven(s, place, 0) = [bits |-> 0, value |-> Usize(s, place, 0), negative |-> FALSE]
        /\ NumSeven(s, place, 1) = [bits |-> 0 + 7, value |-> Usize(s, place, 1), negative |-> FALSE]
    BY SMT DEF NumSeven
  <2>6. UsizeByte([bits |-> 0, value |-> Usize(s, place, 0), negative |-> FALSE], s[place + 1])
          = [bits |-> 0 + 7, value |-> Usize(s, place, 0) + Seven(s[place + 1]) * 2 ^ 0,
             negative |-> FALSE]
    BY RecordMore
  <2>7. UsizeByte(NumSeven(s, place, 0), s[place + 1]) = NumSeven(s, place, 1)
    <3>1. 2 ^ 0 = 1
      BY SMT
    <3>2. Usize(s, place, 0) + Seven(s[place + 1]) * 2 ^ 0 = Usize(s, place, 1)
      BY <2>2, <2>4, <3>1, SMT
    <3> QED
      BY <2>5, <2>6, <3>2, Zenon
  <2> QED
    BY <1>2, <1>7, <2>7, SMT
<1>8. CASE k = 1
  <2>1. /\ Digit(s, place, 2, 1) = a /\ Digit(s, place, 2, 2) = x
        /\ Digit(s, place, 2, 3) = c /\ Digit(s, place, 2, 4) = d
    BY <1>5, <1>3, <1>8, SMT
  <2>2. b = 0 /\ Seven(s[place + 2]) = x
    BY <1>3, <1>4, <1>6, <1>8, SMT
  <2>3. /\ Digit(s, place, 1, 1) = a /\ Digit(s, place, 1, 2) = b
        /\ Digit(s, place, 1, 3) = c /\ Digit(s, place, 1, 4) = d
    BY <1>3, <1>8, SMT
  <2>4. Usize(s, place, 2) = Usize(s, place, 1) + x * 128
    <3>1. Usize(s, place, 2) = a + 128 * (x + 128 * (c + 128 * d))
      BY <2>1, Zenon DEF Usize
    <3>2. Usize(s, place, 1) = a + 128 * (b + 128 * (c + 128 * d))
      BY <2>3, Zenon DEF Usize
    <3> QED
      BY <2>2, <3>1, <3>2, SMT
  <2>5. /\ NumSeven(s, place, 1) = [bits |-> 7, value |-> Usize(s, place, 1), negative |-> FALSE]
        /\ NumSeven(s, place, 2) = [bits |-> 7 + 7, value |-> Usize(s, place, 2), negative |-> FALSE]
    BY SMT DEF NumSeven
  <2>6. UsizeByte([bits |-> 7, value |-> Usize(s, place, 1), negative |-> FALSE], s[place + 2])
          = [bits |-> 7 + 7, value |-> Usize(s, place, 1) + Seven(s[place + 2]) * 2 ^ 7,
             negative |-> FALSE]
    BY RecordMore
  <2>7. UsizeByte(NumSeven(s, place, 1), s[place + 2]) = NumSeven(s, place, 2)
    <3>1. 2 ^ 7 = 128
      BY SMT
    <3>2. Usize(s, place, 1) + Seven(s[place + 2]) * 2 ^ 7 = Usize(s, place, 2)
      BY <2>2, <2>4, <3>1, SMT
    <3> QED
      BY <2>5, <2>6, <3>2, Zenon
  <2> QED
    BY <1>2, <1>8, <2>7, SMT
<1>9. CASE k = 2
  <2>1. /\ Digit(s, place, 3, 1) = a /\ Digit(s, place, 3, 2) = b
        /\ Digit(s, place, 3, 3) = x /\ Digit(s, place, 3, 4) = d
    BY <1>5, <1>3, <1>9, SMT
  <2>2. c = 0 /\ Seven(s[place + 3]) = x
    BY <1>3, <1>4, <1>6, <1>9, SMT
  <2>3. /\ Digit(s, place, 2, 1) = a /\ Digit(s, place, 2, 2) = b
        /\ Digit(s, place, 2, 3) = c /\ Digit(s, place, 2, 4) = d
    BY <1>3, <1>9, SMT
  <2>4. Usize(s, place, 3) = Usize(s, place, 2) + x * 16384
    <3>1. Usize(s, place, 3) = a + 128 * (b + 128 * (x + 128 * d))
      BY <2>1, Zenon DEF Usize
    <3>2. Usize(s, place, 2) = a + 128 * (b + 128 * (c + 128 * d))
      BY <2>3, Zenon DEF Usize
    <3> QED
      BY <2>2, <3>1, <3>2, SMT
  <2>5. /\ NumSeven(s, place, 2) = [bits |-> 14, value |-> Usize(s, place, 2), negative |-> FALSE]
        /\ NumSeven(s, place, 3) = [bits |-> 14 + 7, value |-> Usize(s, place, 3), negative |-> FALSE]
    BY SMT DEF NumSeven
  <2>6. UsizeByte([bits |-> 14, value |-> Usize(s, place, 2), negative |-> FALSE], s[place + 3])
          = [bits |-> 14 + 7, value |-> Usize(s, place, 2) + Seven(s[place + 3]) * 2 ^ 14,
             negative |-> FALSE]
    BY RecordMore
  <2>7. UsizeByte(NumSeven(s, place, 2), s[place + 3]) = NumSeven(s, place, 3)
    <3>1. 2 ^ 14 = 16384
      BY SMT
    <3>2. Usize(s, place, 2) + Seven(s[place + 3]) * 2 ^ 14 = Usize(s, place, 3)
      BY <2>2, <2>4, <3>1, SMT
    <3> QED
      BY <2>5, <2>6, <3>2, Zenon
  <2> QED
    BY <1>2, <1>9, <2>7, SMT
<1>10. CASE k = 3
  <2>1. /\ Digit(s, place, 4, 1) = a /\ Digit(s, place, 4, 2) = b
        /\ Digit(s, place, 4, 3) = c /\ Digit(s, place, 4, 4) = x
    BY <1>5, <1>3, <1>10, SMT
  <2>2. d = 0 /\ Seven(s[place + 4]) = x
    BY <1>3, <1>4, <1>6, <1>10, SMT
  <2>3. /\ Digit(s, place, 3, 1) = a /\ Digit(s, place, 3, 2) = b
        /\ Digit(s, place, 3, 3) = c /\ Digit(s, place, 3, 4) = d
    BY <1>3, <1>10, SMT
  <2>4. Usize(s, place, 4) = Usize(s, place, 3) + x * 2097152
    <3>1. Usize(s, place, 4) = a + 128 * (b + 128 * (c + 128 * x))
      BY <2>1, Zenon DEF Usize
    <3>2. Usize(s, place, 3) = a + 128 * (b + 128 * (c + 128 * d))
      BY <2>3, Zenon DEF Usize
    <3> QED
      BY <2>2, <3>1, <3>2, SMT
  <2>5. /\ NumSeven(s, place, 3) = [bits |-> 21, value |-> Usize(s, place, 3), negative |-> FALSE]
        /\ NumSeven(s, place, 4) = [bits |-> 21 + 7, value |-> Usize(s, place, 4), negative |-> FALSE]
    BY SMT DEF NumSeven
  <2>6. UsizeByte([bits |-> 21, value |-> Usize(s, place, 3), negative |-> FALSE], s[place + 4])
          = [bits |-> 21 + 7, value |-> Usize(s, place, 3) + Seven(s[place + 4]) * 2 ^ 21,
             negative |-> FALSE]
    BY RecordMore
  <2>7. UsizeByte(NumSeven(s, place, 3), s[place + 4]) = NumSeven(s, place, 4)
    <3>1. 2 ^ 21 = 2097152
      BY SMT
    <3>2. Usize(s, place, 3) + Seven(s[place + 4]) * 2 ^ 21 = Usize(s, place, 4)
      BY <2>2, <2>4, <3>1, SMT
    <3> QED
      BY <2>5, <2>6, <3>2, Zenon
  <2> QED
    BY <1>2, <1>10, <2>7, SMT
<1> QED
  BY <1>2, <1>7, <1>8, <1>9, <1>10

\* A size read to its end is the number.
LEMMA SizeRead ==
  ASSUME NEW s \in Seq(Byte), NEW place, NEW end, NEW v, IsSize(s, place, end, v)
  PROVE  Signed(NumSix(s, place, end - place)) = v
BY DEF IsSize, IsNumber, Signed, NumSix

\* A byte of a size: the last one, or another is to come.
LEMMA HalfReadByte ==
  ASSUME NEW s \in Seq(Byte), NEW place, NEW end, IsNumber(s, place, end), NEW n, NEW at,
         HalfRead(s, place, end, n, at)
  PROVE  /\ at \in place..(end - 1) /\ at + 1 \in 1..Len(s) /\ ~Overlong(n)
         /\ More(s[at + 1]) => HalfRead(s, place, end, SizeByte(n, s[at + 1]), at + 1)
         /\ ~More(s[at + 1]) => at + 1 = end /\ SizeByte(n, s[at + 1]) = NumSix(s, place, end - place)
<1>1. PICK k \in 0..(end - place - 1) : at = place + k /\ n = NumSix(s, place, k)
  BY DEF HalfRead
<1>2. place \in Nat /\ end \in Nat /\ k \in 0..3 /\ k + 1 \in 1..(end - place)
      /\ place + (k + 1) = at + 1 /\ place + k + 1 = at + 1 /\ at + 1 <= Len(s)
  BY <1>1 DEF IsNumber
<1>3. ~Overlong(n) /\ SizeByte(n, s[at + 1]) = NumSix(s, place, k + 1)
  BY <1>1, <1>2, SixMore
<1>4. More(s[at + 1]) <=> k + 1 < end - place
  BY <1>2 DEF IsNumber
<1>5. CASE k + 1 < end - place
  <2>1. k + 1 \in 0..(end - place - 1)
    BY <1>2, <1>5
  <2> QED
    BY <1>1, <1>2, <1>3, <1>4, <1>5, <2>1 DEF HalfRead
<1>6. CASE k + 1 = end - place
  BY <1>1, <1>2, <1>3, <1>4, <1>6
<1> QED
  BY <1>2, <1>5, <1>6

\* Nothing of a size is read at its beginning.
LEMMA NothingRead ==
  ASSUME NEW s, NEW place, NEW end, IsNumber(s, place, end)
  PROVE  HalfRead(s, place, end, NoNum, place)
<1>1. 0 \in 0..(end - place - 1) /\ place = place + 0
  BY DEF IsNumber
<1> QED
  BY <1>1 DEF HalfRead, NumSix

-----------------------------------------------------------------------------
(* Chunks.                                                                   *)

\* The decoder reads g bytes of the chunk.
LEMMA ChunkTaken ==
  ASSUME ChunkIsNext, NEW g \in 0..Len(chunk), chunk' = SubSeq(chunk, g + 1, Len(chunk)),
         UNCHANGED <<update, patch_offset>>
  PROVE  /\ ChunkIsNext' /\ Read \in Nat /\ Read' = Read + g /\ Read + g <= Len(update.patch)
         /\ \A k \in 1..g : chunk[k] = update.patch[Read + k]
<1>1. /\ Len(chunk) \in Nat /\ Len(update.patch) \in Nat /\ patch_offset \in Nat
      /\ Read = patch_offset - Len(chunk) /\ Read \in Nat /\ patch_offset <= Len(update.patch)
      /\ \A k \in 1..Len(chunk) : chunk[k] = update.patch[Read + k] /\ chunk[k] \in Byte
  BY LenProperties, ElementOfSeq DEF ChunkIsNext, Read
<1>2. /\ chunk' \in Seq(Byte) /\ Len(chunk') = Len(chunk) - g
      /\ \A k \in 1..(Len(chunk) - g) : chunk'[k] = chunk[g + k]
  <2>1. /\ SubSeq(chunk, g + 1, Len(chunk)) \in Seq(Byte)
        /\ Len(SubSeq(chunk, g + 1, Len(chunk))) = IF g + 1 <= Len(chunk) THEN Len(chunk) - (g + 1) + 1 ELSE 0
        /\ \A k \in 1..(Len(chunk) - (g + 1) + 1) :
             SubSeq(chunk, g + 1, Len(chunk))[k] = chunk[g + 1 + k - 1]
    <3>1. \A k \in (g + 1)..Len(chunk) : chunk[k] \in Byte
      BY <1>1
    <3>2. g + 1 \in Int /\ Len(chunk) \in Int
      BY <1>1
    <3> QED
      BY <1>1, <3>1, <3>2, SubSeqProperties DEF ChunkIsNext
  <2>2. /\ Len(chunk) - (g + 1) + 1 = Len(chunk) - g
        /\ (IF g + 1 <= Len(chunk) THEN Len(chunk) - (g + 1) + 1 ELSE 0) = Len(chunk) - g
        /\ \A k \in 1..(Len(chunk) - g) : g + 1 + k - 1 = g + k
    BY <1>1
  <2> QED
    BY <2>1, <2>2, Zenon
<1>3. Read' = Read + g
  <2>1. Read' = patch_offset - Len(chunk')
    BY DEF Read
  <2> QED
    BY <1>1, <1>2, <2>1
<1>4. ASSUME NEW k \in 1..Len(chunk')
      PROVE  chunk'[k] = update.patch[Read' + k]
  <2>1. g + k \in 1..Len(chunk) /\ k \in 1..(Len(chunk) - g)
    BY <1>1, <1>2
  <2>2. Read' + k = Read + (g + k)
    BY <1>1, <1>3
  <2> QED
    BY <1>1, <1>2, <2>1, <2>2, Zenon
<1>5. ChunkIsNext'
  BY <1>1, <1>2, <1>4 DEF ChunkIsNext
<1> QED
  BY <1>1, <1>3, <1>5

\* ... or the first one.
LEMMA ChunkHead ==
  ASSUME ChunkIsNext, chunk # <<>>
  PROVE  /\ Head(chunk) = update.patch[Read + 1] /\ Head(chunk) \in Byte
         /\ Read \in Nat /\ Read + 1 <= Len(update.patch)
         /\ chunk' = Tail(chunk) /\ UNCHANGED <<update, patch_offset>>
              => ChunkIsNext' /\ Read' = Read + 1
<1>1. Len(chunk) \in Nat \ {0} /\ Head(chunk) = chunk[1] /\ Tail(chunk) = SubSeq(chunk, 1 + 1, Len(chunk))
      /\ chunk[1] \in Byte
  BY EmptySeq, HeadTailProperties, TailIsSubSeq, ElementOfSeq DEF ChunkIsNext
<1>2. chunk[1] = update.patch[Read + 1] /\ Read \in Nat /\ Read + 1 <= Len(update.patch)
  BY <1>1 DEF ChunkIsNext, Read
<1>3. 1 \in 0..Len(chunk)
  BY <1>1
<1> QED
  BY <1>1, <1>2, <1>3, ChunkTaken

\* Reading the next chunk when there is none left reads on where the decoder is.
LEMMA ChunkRead ==
  ASSUME ChunkIsNext, PatchRead
  PROVE  ChunkIsNext' /\ Read' = Read
<1> DEFINE n == Least(Len(update.patch) - patch_offset, ChunkLen)
           p == update.patch
<1>1. /\ chunk = <<>> /\ patch_offset < Len(p) /\ update' = update
      /\ chunk' = SubSeq(p, patch_offset + 1, patch_offset + n) /\ patch_offset' = patch_offset + n
  BY DEF PatchRead
<1>2. /\ Len(p) \in Nat /\ patch_offset \in Nat /\ n \in Nat /\ patch_offset + n <= Len(p) /\ p \in Seq(Byte)
      /\ Len(chunk) = 0
  BY <1>1, HeaderFitsChunk, LenProperties DEF ChunkIsNext, Least
<1> HIDE DEF n
<1>3. /\ chunk' \in Seq(Byte) /\ Len(chunk') = n
      /\ \A k \in 1..n : chunk'[k] = p[patch_offset + k]
  <2>1. \A k \in (patch_offset + 1)..(patch_offset + n) : p[k] \in Byte
    BY <1>2, ElementOfSeq
  <2>2. patch_offset + 1 \in Int /\ patch_offset + n \in Int
    BY <1>2
  <2> QED
    BY <1>1, <1>2, <2>1, <2>2, SubSeqProperties
<1>4. Read' = Read /\ Read = patch_offset
  BY <1>1, <1>2, <1>3 DEF Read
<1> QED
  BY <1>1, <1>2, <1>3, <1>4 DEF ChunkIsNext

\* The end of the patch.
LEMMA ChunkEnds ==
  ASSUME ChunkIsNext
  PROVE  /\ Read \in 0..Len(update.patch) /\ Len(update.patch) \in Nat
         /\ Exhausted => Read = Len(update.patch)
<1>1. Len(update.patch) \in Nat /\ Len(chunk) \in Nat
  BY LenProperties DEF ChunkIsNext
<1> QED
  BY <1>1 DEF ChunkIsNext, Read, Exhausted

-----------------------------------------------------------------------------
(* The layout of a patch.                                                    *)

\* What a layout says of the whole patch.
LEMMA WholeIs ==
  ASSUME NEW L, WrittenAs(update, L)
  PROVE  /\ L.whole \in Seq(Byte) /\ L.stream \in Seq(Byte) /\ update.image \in Seq(Byte)
         /\ Len(L.whole) \in Nat \ {0} /\ Len(L.stream) \in Nat /\ Len(update.patch) \in Nat
         /\ L.header \in 2..Len(L.whole) /\ L.whole[1] \in {0, 2}
         /\ IsSize(L.whole, 1, L.header, Len(update.image))
         /\ \A k \in 1..Len(L.whole) :
              k <= Len(update.patch) => update.patch[k] = L.whole[k]
         /\ update.sound <=> \/ Len(update.patch) = Len(L.whole)
                             \/ Len(update.patch) > Len(L.whole) /\ L.whole[1] = 2
<1>1. /\ L.whole \in Seq(Byte) /\ L.stream \in Seq(Byte) /\ update.image \in Seq(Byte)
      /\ update.patch \in Seq(Byte) /\ Len(L.whole) > 0 /\ L.whole[1] \in {0, 2}
      /\ IsSize(L.whole, 1, L.header, Len(update.image)) /\ L.header \in Nat
  BY DEF WrittenAs, IsLayout
<1>2. Len(L.whole) \in Nat /\ Len(L.stream) \in Nat /\ Len(update.patch) \in Nat
  BY <1>1, LenProperties
<1>3. L.header \in 2..Len(L.whole)
  BY <1>1, <1>2 DEF IsSize, IsNumber
<1>4. \A k \in 1..Len(L.whole) : k <= Len(update.patch) => update.patch[k] = L.whole[k]
  BY <1>2 DEF WrittenAs, Least
<1>5. update.sound <=> \/ Len(update.patch) = Len(L.whole)
                       \/ Len(update.patch) > Len(L.whole) /\ L.whole[1] = 2
  BY DEF WrittenAs
<1> QED
  BY <1>1, <1>2, <1>3, <1>4, <1>5

\* ... of one that is not compressed.
LEMMA PlainIs ==
  ASSUME NEW L, WrittenAs(update, L), update.image # <<>>, L.whole[1] = 0
  PROVE  /\ Len(L.whole) = L.header + Len(L.stream)
         /\ \A k \in 1..Len(L.stream) : L.stream[k] = L.whole[L.header + k]
BY DEF WrittenAs, IsLayout, IsPlain

\* A run, and what follows it.
LEMMA RunIs ==
  ASSUME NEW L, WrittenAs(update, L), update.image # <<>>, L.whole[1] = 2,
         NEW j \in 1..Len(L.runs), NEW run, run = L.runs[j]
  PROVE  /\ run.place \in Nat /\ run.data \in Nat /\ run.end \in Nat
         /\ run.from \in Nat /\ run.to \in Nat /\ IsRun(L, run)
         /\ run.from < run.to /\ run.to <= Len(L.stream) /\ run.end <= Len(L.whole)
         /\ run.place + 1 < run.data /\ run.data - (run.place + 1) \in 1..4 /\ run.data <= Len(L.whole)
         /\ run.to = Len(L.stream) => run.end = Len(L.whole)
         /\ run.to < Len(L.stream) =>
              \A len : ReaderAt(L, len, CrleReader, run.end, run.to)
<1> DEFINE m == Len(L.runs)
<1>1. /\ L.runs \in Seq(Run) /\ m > 0
      /\ \A i \in 1..m : IsRun(L, L.runs[i])
      /\ \A i \in 1..(m - 1) : L.runs[i + 1].place = L.runs[i].end /\ L.runs[i + 1].from = L.runs[i].to
      /\ L.runs[m].end = Len(L.whole) /\ L.runs[m].to = Len(L.stream)
  BY DEF WrittenAs, IsLayout, IsRuns
<1>2. m \in Nat /\ run \in Run /\ Len(L.stream) \in Nat /\ Len(L.whole) \in Nat
  BY <1>1, LenProperties, ElementOfSeq, WholeIs
<1>3. /\ run.place \in Nat /\ run.data \in Nat /\ run.end \in Nat
      /\ run.from \in Nat /\ run.to \in Nat
  BY <1>2 DEF Run
<1>4. /\ IsRun(L, run) /\ run.from < run.to /\ run.to <= Len(L.stream) /\ run.end <= Len(L.whole)
  BY <1>1, Zenon DEF IsRun
<1>5. run.data - (run.place + 1) \in 1..4 /\ run.data <= Len(L.whole)
  <2>1. IsNumber(L.whole, run.place + 1, run.data)
    BY <1>4, Zenon DEF IsRun, IsUsize
  <2>2. run.data - (run.place + 1) \in 1..4 /\ run.data \in 0..Len(L.whole)
    BY <2>1, Zenon DEF IsNumber
  <2> QED
    BY <1>2, <2>2
<1>6. ASSUME j # m
      PROVE  /\ \A len : ReaderAt(L, len, CrleReader, run.end, run.to)
             /\ run.to < Len(L.stream)
  <2>1. j \in 1..(m - 1) /\ j + 1 \in 1..m
    BY <1>2, <1>6
  <2> DEFINE q == L.runs[j + 1]
  <2>2. q.place = run.end /\ q.from = run.to
    BY <1>1, <2>1
  <2>3. CrleReader = [kind |-> "crle", mode |-> CrleReader.mode, size |-> CrleReader.size,
                      left |-> CrleReader.left, value |-> CrleReader.value]
    BY DEF CrleReader
  <2> HIDE DEF q
  <2>4. InRun(L, q, CrleReader, run.end, run.to)
    BY <2>2, <2>3, Zenon DEF InRun
  <2>5. q.from < q.to /\ q.to <= Len(L.stream) /\ q.to \in Nat
    <3>1. IsRun(L, q) /\ q \in Run
      BY <1>1, <2>1, ElementOfSeq DEF q
    <3> QED
      BY <3>1 DEF IsRun, Run
  <2>6. run.to < Len(L.stream)
    BY <1>2, <1>3, <2>2, <2>5
  <2> QED
    BY <2>1, <2>4, <2>6 DEF ReaderAt, q
<1>7. run.place + 1 < run.data
  <2>1. \A a, b \in Nat : b - (a + 1) \in 1..4 => a + 1 < b
    OBVIOUS
  <2> QED
    BY <1>3, <1>5, <2>1, Zenon
<1>8. run.to = Len(L.stream) => run.end = Len(L.whole)
  BY <1>1, <1>2, <1>3, <1>6
<1>9. run.to < Len(L.stream) => \A len : ReaderAt(L, len, CrleReader, run.end, run.to)
  <2>1. L.runs[m].to < Len(L.stream) => FALSE
    BY <1>1, <1>2
  <2> QED
    BY <1>6, <2>1, Zenon
<1> QED
  BY <1>3, <1>4, <1>5, <1>7, <1>8, <1>9, Zenon

-----------------------------------------------------------------------------
(* What the reader gives is what comes next in the stream.                   *)

\* The first bytes of the chunk.
LEMMA ChunkBegins ==
  ASSUME ChunkIsNext, NEW g \in 0..Len(chunk)
  PROVE  /\ SubSeq(chunk, 1, g) \in Seq(Byte) /\ Len(SubSeq(chunk, 1, g)) = g
         /\ \A k \in 1..g : SubSeq(chunk, 1, g)[k] = chunk[k]
<1>1. Len(chunk) \in Nat /\ \A k \in 1..g : chunk[k] \in Byte
  BY LenProperties, ElementOfSeq DEF ChunkIsNext
<1>2. /\ SubSeq(chunk, 1, g) \in Seq(Byte)
      /\ Len(SubSeq(chunk, 1, g)) = IF 1 <= g THEN g - 1 + 1 ELSE 0
      /\ \A k \in 1..(g - 1 + 1) : SubSeq(chunk, 1, g)[k] = chunk[1 + k - 1]
  <2>1. 1 \in Int /\ g \in Int
    BY <1>1
  <2> QED
    BY <1>1, <2>1, SubSeqProperties
<1> QED
  BY <1>1, <1>2

\* What the uncompressed reader gives is next in the stream, and it stays where it says.
LEMMA PlainGives ==
  ASSUME NEW L, WrittenAs(update, L), update.image # <<>>, L.whole[1] = 0, ChunkIsNext,
         NEW sp \in 0..(Len(L.stream) - 1), ReaderAt(L, Len(update.patch), reader, Read, sp),
         Wants \in Nat, sp + Wants <= Len(L.stream),
         Decompress, UNCHANGED <<update, patch_offset>>
  PROVE  /\ Gives \in 1..Wants /\ Data \in Seq(Byte) /\ Len(Data) = Gives
         /\ \A k \in 1..Gives : Data[k] = L.stream[sp + k]
         /\ ChunkIsNext'
         /\ sp + Gives < Len(L.stream) =>
              ReaderAt(L, Len(update.patch), reader', Read', sp + Gives)
         /\ sp + Gives = Len(L.stream) => (DestroyOk' <=> update.sound)
<1> DEFINE len == Len(update.patch)
<1>1. reader = NoneReader(len - Read) /\ Read = L.header + sp
  BY DEF ReaderAt
<1>2. /\ len \in Nat /\ Len(chunk) \in Nat /\ Len(L.stream) \in Nat /\ L.header \in Nat /\ sp \in Nat
      /\ L.header > 0 /\ Len(L.whole) = L.header + Len(L.stream)
  <2>1. /\ len \in Nat /\ Len(L.stream) \in Nat /\ Len(L.whole) \in Nat \ {0}
        /\ L.header \in 2..Len(L.whole) /\ Len(L.whole) = L.header + Len(L.stream)
    BY WholeIs, PlainIs, Zenon
  <2>2. Len(chunk) \in Nat
    BY LenProperties DEF ChunkIsNext
  <2>3. \A a \in Nat : \A b \in 2..a : b \in Nat /\ b > 0
    OBVIOUS
  <2>4. \A a \in Nat : \A b \in 0..(a - 1) : b \in Nat
    OBVIOUS
  <2>5. Len(L.whole) \in Nat
    BY <2>1
  <2> QED
    BY <2>1, <2>2, <2>3, <2>4, <2>5, Zenon
<1>3. reader.kind = "none" /\ reader.left = len - Read /\ ~Repeats
  BY <1>1, SMT DEF NoneReader, Repeats
<1> DEFINE g == Gives
<1>4. g = Least(Wants, Len(chunk)) /\ g > 0
  BY <1>3, Zenon DEF Gives, Decompress
<1>5. g \in 1..Wants /\ g \in 0..Len(chunk)
  BY <1>2, <1>4 DEF Least
<1>6. /\ chunk' = SubSeq(chunk, g + 1, Len(chunk)) /\ reader' = Advance(g)
      /\ Data = SubSeq(chunk, 1, g)
  BY <1>3, Zenon DEF Decompress, Data
<1> HIDE DEF g
<1>7. /\ ChunkIsNext' /\ Read \in Nat /\ Read' = Read + g /\ Read + g <= len
      /\ \A k \in 1..g : chunk[k] = update.patch[Read + k]
  BY <1>5, <1>6, ChunkTaken
<1>8. ASSUME NEW k \in 1..g
      PROVE  Data[k] = L.stream[sp + k]
  <2>1. Data[k] = chunk[k]
    BY <1>5, <1>6, ChunkBegins
  <2>2. k \in Nat /\ k >= 1 /\ k <= g /\ g \in Nat /\ g <= Wants
    BY <1>5
  <2>3. sp + k \in Nat /\ sp + k >= 1 /\ sp + k <= Len(L.stream)
    <3>1. sp \in Nat /\ Len(L.stream) \in Nat
      BY <1>2, Zenon
    <3> QED
      BY <2>2, <3>1
  <2>4. sp + k \in 1..Len(L.stream)
    BY <1>2, <2>3
  <2>5. Read + k = L.header + (sp + k) /\ Read + k <= len
    <3>1. L.header \in Nat /\ sp \in Nat /\ len \in Nat /\ Read = L.header + sp
      BY <1>1, <1>2, Zenon
    <3>2. Read + g <= len /\ Read \in Nat
      BY <1>7, Zenon
    <3>3. PICK h \in Nat, l \in Nat, a \in Nat : L.header = h /\ len = l /\ Read = a
      BY <3>1, <3>2, Zenon
    <3>4. a = h + sp /\ a + g <= l
      BY <3>1, <3>2, <3>3, Zenon
    <3>5. a + k = h + (sp + k) /\ a + k <= l
      BY <2>2, <3>1, <3>4
    <3> QED
      BY <3>3, <3>5, Zenon
  <2>6. Read + k \in 1..Len(L.whole)
    <3>1. \A h, n, y \in Nat : y >= 1 /\ y <= n => h + y \in 1..(h + n)
      OBVIOUS
    <3> QED
      BY <1>2, <2>3, <2>5, <3>1, Zenon
  <2>7. update.patch[Read + k] = L.whole[Read + k]
    BY <2>5, <2>6, WholeIs, Zenon
  <2>8. L.stream[sp + k] = L.whole[Read + k]
    <3>1. L.stream[sp + k] = L.whole[L.header + (sp + k)]
      BY <2>4, PlainIs, Zenon
    <3> QED
      BY <2>5, <3>1, Zenon
  <2>9. Data[k] = update.patch[Read + k]
    BY <1>7, <2>1, Zenon
  <2> QED
    BY <2>7, <2>8, <2>9, Zenon
<1>9. reader' = NoneReader(len - Read')
  <2>1. Advance(g) = [reader EXCEPT !.left = len - Read - g]
    BY <1>3, SMT DEF Advance
  <2>2. len - Read' = len - Read - g
    BY <1>2, <1>5, <1>7
  <2> QED
    BY <1>1, <1>6, <2>1, <2>2 DEF NoneReader
<1>10. Read' = L.header + (sp + g)
  BY <1>1, <1>2, <1>5, <1>7
<1>11. ReaderAt(L, len, reader', Read', sp + g)
  BY <1>9, <1>10 DEF ReaderAt
<1>12. Data \in Seq(Byte) /\ Len(Data) = g
  BY <1>5, <1>6, ChunkBegins
<1>13. ASSUME sp + g = Len(L.stream)
       PROVE  DestroyOk' <=> update.sound
  <2>1. Read' = Len(L.whole) /\ len >= Len(L.whole)
    BY <1>2, <1>7, <1>10, <1>13
  <2>2. reader'.kind = "none" /\ reader'.left = len - Len(L.whole)
    BY <1>9, <2>1 DEF NoneReader
  <2>3. DestroyOk' <=> len = Len(L.whole)
    <3>1. DestroyOk' <=> reader'.left = 0
      BY <2>2 DEF DestroyOk
    <3> QED
      BY <1>2, <2>2, <3>1, WholeIs
  <2>4. update.sound <=> len = Len(L.whole)
    BY WholeIs
  <2> QED
    BY <2>3, <2>4
<1> QED
  BY <1>5, <1>7, <1>8, <1>11, <1>12, <1>13 DEF g

\* A run is scattered or repeated, by the byte that begins it.
LEMMA RunKinds ==
  ASSUME NEW L, NEW run, IsRun(L, run)
  PROVE  /\ L.whole[run.place + 1] = 0 =>
              /\ run.end = run.data + (run.to - run.from)
              /\ \A k \in 1..(run.to - run.from) : L.stream[run.from + k] = L.whole[run.data + k]
         /\ L.whole[run.place + 1] = 1 =>
              /\ run.end = run.data + 1
              /\ \A k \in 1..(run.to - run.from) : L.stream[run.from + k] = L.whole[run.end]
<1> DEFINE b == L.whole[run.place + 1]
<1>1. b = 0 => b # 1
  OBVIOUS
<1> QED
  BY <1>1, Zenon DEF IsRun

\* What the CRLE reader gives is next in the stream, in its run or at the next one.
LEMMA CrleGives ==
  ASSUME NEW L, WrittenAs(update, L), update.image # <<>>, L.whole[1] = 2, ChunkIsNext,
         NEW sp \in 0..(Len(L.stream) - 1), ReaderAt(L, Len(update.patch), reader, Read, sp),
         Wants \in Nat, sp + Wants <= Len(L.stream),
         Decompress, UNCHANGED <<update, patch_offset>>
  PROVE  /\ Gives \in 1..Wants /\ Data \in Seq(Byte) /\ Len(Data) = Gives
         /\ \A k \in 1..Gives : Data[k] = L.stream[sp + k]
         /\ ChunkIsNext'
         /\ sp + Gives < Len(L.stream) =>
              ReaderAt(L, Len(update.patch), reader', Read', sp + Gives)
         /\ sp + Gives = Len(L.stream) => (DestroyOk' <=> update.sound)
<1> DEFINE len == Len(update.patch)
           g == Gives
<1>1. PICK j \in 1..Len(L.runs) : InRun(L, L.runs[j], reader, Read, sp)
  BY DEF ReaderAt
<1> DEFINE run == L.runs[j]
<1>2. /\ run.data \in Nat /\ run.end \in Nat /\ run.from \in Nat /\ run.to \in Nat
      /\ IsRun(L, run) /\ run.to <= Len(L.stream) /\ run.end <= Len(L.whole)
      /\ run.to = Len(L.stream) => run.end = Len(L.whole)
      /\ run.to < Len(L.stream) => ReaderAt(L, len, CrleReader, run.end, run.to)
  BY RunIs
<1> HIDE DEF run
<1>3. PICK data \in Nat, end \in Nat, from \in Nat, to \in Nat :
        run.data = data /\ run.end = end /\ run.from = from /\ run.to = to
  BY <1>2
<1>4. /\ len \in Nat /\ Len(chunk) \in Nat /\ Len(L.stream) \in Nat /\ Len(L.whole) \in Nat
      /\ sp \in Nat /\ to <= Len(L.stream) /\ end <= Len(L.whole)
  <2>1. len \in Nat /\ Len(L.stream) \in Nat /\ Len(L.whole) \in Nat \ {0}
    BY WholeIs, Zenon
  <2>2. Len(chunk) \in Nat
    BY LenProperties DEF ChunkIsNext
  <2>3. \A a \in Nat : \A b \in 0..(a - 1) : b \in Nat
    OBVIOUS
  <2>4. Len(L.whole) \in Nat
    BY <2>1
  <2> QED
    BY <1>2, <1>3, <2>1, <2>2, <2>3, <2>4, Zenon
\* What is in the run at this place.
<1>5. /\ L.whole[run.place + 1] = 0 =>
           end = data + (to - from) /\ \A i \in 1..(to - from) : L.stream[from + i] = L.whole[data + i]
      /\ L.whole[run.place + 1] = 1 => \A i \in 1..(to - from) : L.stream[from + i] = L.whole[end]
  <2>1. /\ L.whole[run.place + 1] = 0 =>
             /\ run.end = run.data + (run.to - run.from)
             /\ \A i \in 1..(run.to - run.from) : L.stream[run.from + i] = L.whole[run.data + i]
        /\ L.whole[run.place + 1] = 1 =>
             \A i \in 1..(run.to - run.from) : L.stream[run.from + i] = L.whole[run.end]
    <3>1. IsRun(L, run)
      BY <1>2
    <3> QED
      BY <3>1, RunKinds, Zenon
  <2> QED
    BY <1>3, <2>1
<1>6. reader.kind = "crle" /\ reader = [kind |-> "crle", mode |-> reader.mode, size |-> reader.size,
                                         left |-> reader.left, value |-> reader.value]
  <2>1. reader = [kind |-> "crle", mode |-> reader.mode, size |-> reader.size,
                  left |-> reader.left, value |-> reader.value]
    BY <1>1, Zenon DEF InRun, run
  <2>2. [kind |-> "crle", mode |-> reader.mode, size |-> reader.size,
                  left |-> reader.left, value |-> reader.value].kind = "crle"
    OBVIOUS
  <2> QED
    BY <2>1, <2>2, Zenon
<1>7. /\ reader.mode \in {"scattered", "repeated"} /\ g > 0
      /\ g = IF reader.mode = "scattered" THEN Least(Wants, Least(reader.left, Len(chunk)))
             ELSE Least(Wants, reader.left)
  BY <1>6, SMT DEF Decompress, Gives
<1> HIDE DEF g
<1>8. /\ reader.mode = "scattered" => L.whole[run.place + 1] = 0 /\ Read = data + (sp - from)
      /\ reader.mode = "repeated" => /\ L.whole[run.place + 1] = 1 /\ Read = end
                                     /\ reader.value = L.whole[end]
      /\ from <= sp /\ sp < to /\ reader.left = to - sp
  <2>1. /\ reader.mode = "scattered" => L.whole[run.place + 1] = 0 /\ Read = run.data + (sp - run.from)
        /\ reader.mode = "repeated" => /\ L.whole[run.place + 1] = 1 /\ Read = run.end
                                       /\ reader.value = L.whole[run.end]
        /\ sp \in run.from..(run.to - 1) /\ reader.left = run.to - sp
    BY <1>1, <1>7, SMT DEF InRun, run, CrleReader
  <2> QED
    BY <1>3, <2>1
<1>9. g \in Nat /\ g >= 1 /\ g <= Wants /\ g <= to - sp /\ (reader.mode = "scattered" => g <= Len(chunk))
  <2>1. CASE reader.mode = "scattered"
    <3>1. g = Least(Wants, Least(to - sp, Len(chunk)))
      BY <1>7, <1>8, <2>1, Zenon
    <3>2. PICK m \in Nat : m = Least(to - sp, Len(chunk)) /\ m <= to - sp /\ m <= Len(chunk)
      BY <1>4, <1>8 DEF Least
    <3>3. g = Least(Wants, m) /\ g > 0
      BY <1>7, <3>1, <3>2, Zenon
    <3>4. g \in Nat /\ g <= Wants /\ g <= m
      BY <3>2, <3>3 DEF Least
    <3>5. Len(chunk) \in Nat /\ sp \in Nat
      BY <1>4, Zenon
    <3>6. g >= 1 /\ g <= to - sp /\ g <= Len(chunk)
      BY <3>2, <3>3, <3>4, <3>5
    <3> QED
      BY <3>4, <3>6, Zenon
  <2>2. CASE reader.mode # "scattered"
    <3>1. g = Least(Wants, to - sp)
      BY <1>7, <1>8, <2>2, Zenon
    <3> QED
      BY <1>7, <1>8, <2>2, <3>1 DEF Least
  <2> QED
    BY <2>1, <2>2
<1>10. /\ reader' = Advance(g)
       /\ reader.mode = "scattered" => chunk' = SubSeq(chunk, g + 1, Len(chunk)) /\ Data = SubSeq(chunk, 1, g)
       /\ reader.mode = "repeated" => chunk' = chunk /\ Data = [k \in 1..g |-> reader.value]
  <2>1. Repeats <=> reader.mode = "repeated"
    BY <1>6, Zenon DEF Repeats
  <2>2. reader.mode = "scattered" => ~Repeats
    BY <2>1
  <2> QED
    BY <2>1, <2>2, Zenon DEF Decompress, Data, g
\* The patch behind it and the bytes it gave.
<1>11. /\ ChunkIsNext' /\ Read' \in Nat /\ Read' <= len
       /\ Read' = IF reader.mode = "scattered" THEN Read + g ELSE end
       /\ \A k \in 1..g : Data[k] = L.stream[sp + k]
       /\ Data \in Seq(Byte) /\ Len(Data) = g
  <2>1. ASSUME NEW k \in 1..g
        PROVE  /\ sp - from + k \in 1..(to - from) /\ from + (sp - from + k) = sp + k
               /\ data + (sp - from + k) = data + (sp - from) + k
    <3>1. sp \in Nat /\ from <= sp /\ sp < to
      BY <1>4, <1>8, Zenon
    <3>2. k \in Nat /\ k >= 1 /\ k <= to - sp
      BY <1>9, <3>1
    <3>3. sp - from + k \in 1..(to - from)
      BY <3>1, <3>2
    <3>4. from + (sp - from + k) = sp + k
      BY <3>1, <3>2
    <3>5. data + (sp - from + k) = data + (sp - from) + k
      BY <3>1, <3>2
    <3> QED
      BY <3>3, <3>4, <3>5, Zenon
  <2>2. CASE reader.mode = "scattered"
    <3>1. /\ ChunkIsNext' /\ Read \in Nat /\ Read' = Read + g /\ Read + g <= len
          /\ \A k \in 1..g : chunk[k] = update.patch[Read + k]
      <4>1. g \in 0..Len(chunk)
        BY <1>4, <1>9, <2>2
      <4> QED
        BY <1>10, <2>2, <4>1, ChunkTaken
    <3>2. ASSUME NEW k \in 1..g
          PROVE  Data[k] = L.stream[sp + k]
      <4>1. Data[k] = chunk[k]
        <5>1. g \in 0..Len(chunk)
          BY <1>4, <1>9, <2>2
        <5> QED
          BY <1>10, <2>2, <5>1, ChunkBegins
      <4>2. L.stream[sp + k] = L.whole[Read + k]
        <5>1. L.stream[from + (sp - from + k)] = L.whole[data + (sp - from + k)]
          BY <1>5, <1>8, <2>1, <2>2, Zenon
        <5> QED
          BY <1>8, <2>1, <2>2, <5>1, Zenon
      <4>3. Read + k \in 1..Len(L.whole) /\ Read + k <= len
        <5>1. Read + k <= len
          BY <1>4, <1>9, <3>1
        <5>2. Read + k <= end
          BY <1>4, <1>5, <1>8, <1>9, <2>2
        <5> QED
          BY <1>4, <3>1, <5>1, <5>2
      <4>4. update.patch[Read + k] = L.whole[Read + k]
        BY <4>3, WholeIs
      <4> QED
        BY <3>1, <4>1, <4>2, <4>4
    <3>3. Read' \in Nat
      BY <1>9, <3>1
    <3>4. Data \in Seq(Byte) /\ Len(Data) = g
      <4>1. g \in 0..Len(chunk)
        BY <1>4, <1>9, <2>2
      <4> QED
        BY <1>10, <2>2, <4>1, ChunkBegins
    <3> QED
      BY <2>2, <3>1, <3>2, <3>3, <3>4
  <2>3. CASE reader.mode = "repeated"
    <3>1. 0 \in 0..Len(chunk) /\ SubSeq(chunk, 0 + 1, Len(chunk)) = chunk
      BY <1>4, SubSeqFull DEF ChunkIsNext
    <3>2. /\ ChunkIsNext' /\ Read \in Nat /\ Read' = Read + 0 /\ Read + 0 <= len
      BY <1>10, <2>3, <3>1, ChunkTaken
    <3>3. ASSUME NEW k \in 1..g
          PROVE  Data[k] = L.stream[sp + k]
      <4>1. Data[k] = L.whole[end]
        BY <1>8, <1>10, <2>3
      <4>2. L.stream[from + (sp - from + k)] = L.whole[end]
        BY <1>5, <1>8, <2>1, <2>3, Zenon
      <4> QED
        BY <2>1, <4>1, <4>2, Zenon
    <3>4. Data \in Seq(Byte) /\ Len(Data) = g
      <4>1. end \in 1..Len(L.whole)
        <5>1. IsRun(L, run) /\ L.whole[run.place + 1] = 1
          BY <1>2, <1>8, <2>3, Zenon
        <5>2. end = data + 1
          BY <1>3, <5>1, RunKinds, Zenon
        <5> QED
          BY <1>4, <5>2
      <4>2. L.whole[end] \in Byte
        BY <4>1, WholeIs, ElementOfSeq
      <4>3. Data = [k \in 1..g |-> L.whole[end]]
        BY <1>8, <1>10, <2>3
      <4> QED
        BY <1>9, <4>2, <4>3, SeqDef
    <3> QED
      BY <1>8, <2>3, <3>2, <3>3, <3>4
  <2> QED
    BY <1>7, <2>2, <2>3
\* The reader is in the run, or the run is at its end.
<1>12. CASE g = to - sp
  <2>1. sp + g = to /\ Read' = end
    <3>1. CASE reader.mode = "scattered"
      BY <1>4, <1>5, <1>8, <1>9, <1>11, <1>12, <3>1
    <3>2. CASE reader.mode # "scattered"
      BY <1>4, <1>8, <1>9, <1>11, <1>12, <3>2
    <3> QED
      BY <3>1, <3>2
  <2>2. reader' = CrleReader
    BY <1>6, <1>8, <1>10, <1>12 DEF Advance
  <2>3. ASSUME sp + g = Len(L.stream)
        PROVE  DestroyOk' <=> update.sound
    <3>1. Len(L.whole) <= len
      BY <1>2, <1>3, <1>11, <2>1, <2>3
    <3>2. update.sound
      BY <1>4, <3>1, WholeIs
    <3>3. DestroyOk'
      BY <2>2 DEF DestroyOk, CrleReader
    <3> QED
      BY <3>2, <3>3
  <2>4. sp + g < Len(L.stream) => ReaderAt(L, len, reader', Read', sp + g)
    BY <1>2, <1>3, <2>1, <2>2, Zenon
  <2>5. g \in 1..Wants
    BY <1>9
  <2> QED
    BY <1>11, <2>3, <2>4, <2>5, Zenon DEF g
<1>13. CASE g # to - sp
  <2>1. /\ sp + g \in from..(to - 1) /\ to - (sp + g) = to - sp - g /\ sp + g < Len(L.stream)
        /\ reader.mode = "scattered" => Read' = data + ((sp + g) - from)
    <3>1. sp \in Nat /\ g \in Nat /\ from <= sp /\ sp < to /\ g <= to - sp /\ g # to - sp
      BY <1>4, <1>8, <1>9, <1>13, Zenon
    <3>2. to <= Len(L.stream) /\ Len(L.stream) \in Nat
      BY <1>4, Zenon
    <3>3. /\ sp + g \in from..(to - 1) /\ to - (sp + g) = to - sp - g /\ sp + g < to
          /\ data + (sp - from) + g = data + ((sp + g) - from)
      BY <3>1
    <3>4. sp + g < Len(L.stream)
      BY <3>1, <3>2, <3>3
    <3>5. reader.mode = "scattered" => Read' = data + ((sp + g) - from)
      BY <1>8, <1>11, <3>3, Zenon
    <3> QED
      BY <3>3, <3>4, <3>5, Zenon
  <2>2. reader' = [kind |-> "crle", mode |-> reader.mode, size |-> reader.size,
                   left |-> to - (sp + g), value |-> reader.value]
    <3>1. reader' = [reader EXCEPT !.left = to - sp - g]
      BY <1>6, <1>8, <1>10, <1>13 DEF Advance
    <3> QED
      BY <1>6, <2>1, <3>1
  <2>3. /\ reader' = [kind |-> "crle", mode |-> reader'.mode, size |-> reader'.size,
                      left |-> reader'.left, value |-> reader'.value]
        /\ reader'.mode = reader.mode /\ reader'.left = run.to - (sp + g) /\ reader'.value = reader.value
    BY <1>3, <2>2
  <2>4. InRun(L, run, reader', Read', sp + g)
    <3>1. CASE reader.mode = "scattered"
      <4>1. /\ sp + g \in run.from..(run.to - 1) /\ reader'.left = run.to - (sp + g)
            /\ Read' = run.data + ((sp + g) - run.from)
        BY <1>3, <2>1, <2>3, <3>1
      <4> QED
        <5>1. reader'.mode = "scattered" /\ L.whole[run.place + 1] = 0
          BY <1>8, <2>3, <3>1, Zenon
        <5>2. reader' = [kind |-> "crle", mode |-> reader'.mode, size |-> reader'.size,
                         left |-> reader'.left, value |-> reader'.value]
          BY <2>3, Zenon
        <5> QED
          BY <4>1, <5>1, <5>2, Zenon DEF InRun
    <3>2. CASE reader.mode = "repeated"
      <4>1. /\ sp + g \in run.from..(run.to - 1) /\ reader'.left = run.to - (sp + g)
            /\ Read' = run.end /\ reader'.value = L.whole[run.end]
        BY <1>3, <1>8, <1>11, <2>1, <2>3, <3>2
      <4> QED
        BY <1>8, <2>3, <3>2, <4>1, Zenon DEF InRun
    <3> QED
      BY <1>7, <3>1, <3>2
  <2>5. ReaderAt(L, len, reader', Read', sp + g)
    BY <2>4 DEF ReaderAt, run
  <2>6. sp + g # Len(L.stream) /\ g \in 1..Wants
    BY <1>4, <1>9, <2>1
  <2> QED
    BY <1>11, <2>5, <2>6, Zenon DEF g
<1> QED
  BY <1>12, <1>13

\* What either reader gives is next in the stream (detools.c:170-191, 728-772).
LEMMA ReaderGives ==
  ASSUME NEW L, WrittenAs(update, L), update.image # <<>>, ChunkIsNext,
         NEW sp \in 0..(Len(L.stream) - 1), ReaderAt(L, Len(update.patch), reader, Read, sp),
         Wants \in Nat, sp + Wants <= Len(L.stream),
         Decompress, UNCHANGED <<update, patch_offset>>
  PROVE  /\ Gives \in 1..Wants /\ Data \in Seq(Byte) /\ Len(Data) = Gives
         /\ \A k \in 1..Gives : Data[k] = L.stream[sp + k]
         /\ ChunkIsNext'
         /\ sp + Gives < Len(L.stream) =>
              ReaderAt(L, Len(update.patch), reader', Read', sp + Gives)
         /\ sp + Gives = Len(L.stream) => (DestroyOk' <=> update.sound)
<1>1. L.whole[1] = 0 \/ L.whole[1] = 2
  BY WholeIs
<1>2. CASE L.whole[1] = 0
  BY <1>2, PlainGives
<1>3. CASE L.whole[1] = 2
  BY <1>3, CrleGives
<1> QED
  BY <1>1, <1>2, <1>3

-----------------------------------------------------------------------------
(* The heads of the runs, and the end of the patch.                          *)

\* Unless it repeats a byte, the reader has something of its run before it.
LEMMA RunGoesOn ==
  ASSUME NEW L, WrittenAs(update, L), update.image # <<>>, L.whole[1] = 2,
         NEW j \in 1..Len(L.runs), NEW r, NEW at, NEW sp, InRun(L, L.runs[j], r, at, sp),
         r.mode # "repeated"
  PROVE  at \in Nat /\ at < Len(L.whole)
<1> DEFINE run == L.runs[j]
<1>1. /\ run.place \in Nat /\ run.data \in Nat /\ run.end \in Nat /\ run.from \in Nat /\ run.to \in Nat
      /\ IsRun(L, run) /\ run.place + 1 < run.data /\ run.data <= Len(L.whole) /\ run.end <= Len(L.whole)
      /\ Len(L.whole) \in Nat
  BY RunIs, WholeIs
<1> HIDE DEF run
<1>2. PICK place \in Nat, data \in Nat, end \in Nat, from \in Nat, to \in Nat, w \in Nat :
        /\ run.place = place /\ run.data = data /\ run.end = end /\ run.from = from /\ run.to = to
        /\ place + 1 < data /\ data <= w /\ end <= w /\ Len(L.whole) = w
  BY <1>1
<1>3. /\ L.whole[run.place + 1] = 0 => end = data + (to - from)
      /\ L.whole[run.place + 1] = 1 => end = data + 1
  <2>1. /\ L.whole[run.place + 1] = 0 => run.end = run.data + (run.to - run.from)
        /\ L.whole[run.place + 1] = 1 => run.end = run.data + 1
    BY <1>1, RunKinds, Zenon
  <2> QED
    BY <1>2, <2>1
<1>4. \/ at = run.place
      \/ \E k \in 0..(run.data - (run.place + 1) - 1) : at = run.place + 1 + k
      \/ L.whole[run.place + 1] = 1 /\ at = run.data
      \/ /\ L.whole[run.place + 1] = 0 /\ sp \in run.from..(run.to - 1)
         /\ at = run.data + (sp - run.from)
  BY Zenon DEF InRun, run
<1>5. \/ at = place
      \/ \E k \in 0..(data - (place + 1) - 1) : at = place + 1 + k
      \/ end = data + 1 /\ at = data
      \/ end = data + (to - from) /\ sp \in from..(to - 1) /\ at = data + (sp - from)
  BY <1>2, <1>3, <1>4, Zenon
<1>6. place + 1 < data /\ data <= w /\ end <= w
  BY <1>2, Zenon
<1>7. ASSUME at = place
      PROVE  at \in Nat /\ at < w
  BY <1>6, <1>7
<1>8. ASSUME \E k \in 0..(data - (place + 1) - 1) : at = place + 1 + k
      PROVE  at \in Nat /\ at < w
  BY <1>6, <1>8
<1>9. ASSUME end = data + 1 /\ at = data
      PROVE  at \in Nat /\ at < w
  BY <1>6, <1>9
<1>10. ASSUME end = data + (to - from), sp \in from..(to - 1), at = data + (sp - from)
       PROVE  at \in Nat /\ at < w
  BY <1>6, <1>10
<1>11. at \in Nat /\ at < w
  BY <1>5, <1>7, <1>8, <1>9, <1>10, Zenon
<1> QED
  BY <1>2, <1>11, Zenon

\* What the CRLE reader is in after a byte of the head of a run.
LEMMA CrleHeadIs ==
  ASSUME NEW s, NEW l, NEW v, NEW b, NEW m,
         reader = [kind |-> "crle", mode |-> m, size |-> s, left |-> l, value |-> v]
  PROVE  /\ reader.mode = m /\ reader.size = s
         /\ m = "idle" =>
              CrleHead(b) = [kind |-> "crle", mode |-> IF b = 0 THEN "size" ELSE "repetitions",
                             size |-> NoNum, left |-> 0, value |-> 0]
         /\ m = "value" =>
              CrleHead(b) = [kind |-> "crle", mode |-> "repeated", size |-> s, left |-> l, value |-> b]
         /\ m = "size" /\ ~More(b) =>
              CrleHead(b) = [kind |-> "crle", mode |-> "scattered", size |-> s,
                             left |-> UsizeByte(s, b).value, value |-> v]
         /\ m = "repetitions" /\ ~More(b) =>
              CrleHead(b) = [kind |-> "crle", mode |-> "value", size |-> s,
                             left |-> UsizeByte(s, b).value, value |-> v]
         /\ m \in {"size", "repetitions"} /\ More(b) =>
              CrleHead(b) = [kind |-> "crle", mode |-> m, size |-> UsizeByte(s, b),
                             left |-> l, value |-> v]
<1>1. reader.mode = m /\ reader.size = s
  OBVIOUS
<1>2. m = "idle" => CrleHead(b) = [CrleReader EXCEPT !.mode = IF b = 0 THEN "size" ELSE "repetitions"]
  BY <1>1, Zenon DEF CrleHead
<1>3. m = "value" => CrleHead(b) = [reader EXCEPT !.mode = "repeated", !.value = b]
  BY <1>1, SMT DEF CrleHead
<1>4. m \in {"size", "repetitions"} =>
        CrleHead(b) = IF More(b) THEN [reader EXCEPT !.size = UsizeByte(s, b)]
                      ELSE [reader EXCEPT !.left = UsizeByte(s, b).value,
                                          !.mode = IF reader.mode = "size" THEN "scattered" ELSE "value"]
  BY <1>1, SMT DEF CrleHead
<1>5. \A n : [reader EXCEPT !.size = n] = [kind |-> "crle", mode |-> m, size |-> n, left |-> l, value |-> v]
  OBVIOUS
<1>6. ASSUME NEW n, NEW q
      PROVE  /\ [reader EXCEPT !.left = n, !.mode = q]
                  = [kind |-> "crle", mode |-> q, size |-> s, left |-> n, value |-> v]
             /\ [reader EXCEPT !.mode = q, !.value = n]
                  = [kind |-> "crle", mode |-> q, size |-> s, left |-> l, value |-> n]
  <2>1. [reader EXCEPT !.left = n] = [kind |-> "crle", mode |-> m, size |-> s, left |-> n, value |-> v]
    OBVIOUS
  <2>2. [reader EXCEPT !.mode = q] = [kind |-> "crle", mode |-> q, size |-> s, left |-> l, value |-> v]
    OBVIOUS
  <2>3. [[kind |-> "crle", mode |-> m, size |-> s, left |-> n, value |-> v] EXCEPT !.mode = q]
          = [kind |-> "crle", mode |-> q, size |-> s, left |-> n, value |-> v]
    OBVIOUS
  <2>4. [[kind |-> "crle", mode |-> q, size |-> s, left |-> l, value |-> v] EXCEPT !.value = n]
          = [kind |-> "crle", mode |-> q, size |-> s, left |-> l, value |-> n]
    OBVIOUS
  <2> QED
    BY <2>1, <2>2, <2>3, <2>4, Zenon
<1>7. \A q : [CrleReader EXCEPT !.mode = q]
               = [kind |-> "crle", mode |-> q, size |-> NoNum, left |-> 0, value |-> 0]
  BY DEF CrleReader
<1>8. m = "idle" =>
        CrleHead(b) = [kind |-> "crle", mode |-> IF b = 0 THEN "size" ELSE "repetitions",
                       size |-> NoNum, left |-> 0, value |-> 0]
  BY <1>2, <1>7, Zenon
<1>9. m = "value" =>
        CrleHead(b) = [kind |-> "crle", mode |-> "repeated", size |-> s, left |-> l, value |-> b]
  BY <1>3, <1>6, Zenon
<1>10. m \in {"size", "repetitions"} /\ More(b) =>
         CrleHead(b) = [kind |-> "crle", mode |-> m, size |-> UsizeByte(s, b), left |-> l, value |-> v]
  BY <1>4, <1>5, Zenon
<1>11. ASSUME m \in {"size", "repetitions"}, ~More(b)
       PROVE  CrleHead(b) = [kind |-> "crle", mode |-> IF m = "size" THEN "scattered" ELSE "value",
                             size |-> s, left |-> UsizeByte(s, b).value, value |-> v]
  BY <1>1, <1>4, <1>6, <1>11, Zenon
<1>12. m = "size" /\ ~More(b) =>
         CrleHead(b) = [kind |-> "crle", mode |-> "scattered", size |-> s,
                        left |-> UsizeByte(s, b).value, value |-> v]
  BY <1>11, SMT
<1>13. m = "repetitions" /\ ~More(b) =>
         CrleHead(b) = [kind |-> "crle", mode |-> "value", size |-> s,
                        left |-> UsizeByte(s, b).value, value |-> v]
  BY <1>11, SMT
<1> QED
  BY <1>1, <1>8, <1>9, <1>10, <1>12, <1>13, Zenon

\* Nothing of a count is read at its beginning.
LEMMA NothingCounted ==
  ASSUME NEW s, NEW place
  PROVE  NumSeven(s, place, 0) = NoNum
<1>1. Digit(s, place, 0, 1) = 0 /\ Digit(s, place, 0, 2) = 0 /\ Digit(s, place, 0, 3) = 0
      /\ Digit(s, place, 0, 4) = 0
  BY SMT DEF Digit
<1>2. Usize(s, place, 0) = 0
  BY <1>1, SMT DEF Usize
<1>3. 7 * 0 = 0
  BY SMT
<1> QED
  BY <1>2, <1>3, Zenon DEF NumSeven, NoNum

\* A byte of the head of a run is never refused.
LEMMA HeadTaken ==
  ASSUME NEW L, WrittenAs(update, L), update.image # <<>>, ChunkIsNext,
         NEW sp, ReaderAt(L, Len(update.patch), reader, Read, sp), DecompressHead
  PROVE  /\ ChunkIsNext' /\ UNCHANGED <<state, result>>
         /\ ReaderAt(L, Len(update.patch), reader', Read', sp)
<1> DEFINE b == Head(chunk)
           len == Len(update.patch)
<1>1. /\ reader.kind = "crle" /\ reader.mode # "scattered" /\ reader.mode # "repeated"
      /\ chunk # <<>> /\ chunk' = Tail(chunk) /\ UNCHANGED <<update, patch_offset>>
      /\ \/ reader.mode = "idle" /\ b \notin {0, 1}
         \/ reader.mode \in {"size", "repetitions"} /\ Overlong(reader.size)
         \/ reader' = CrleHead(b) /\ UNCHANGED <<state, result>>
  BY SMT DEF DecompressHead, io
<1>2. L.whole[1] = 2 /\ \E i \in 1..Len(L.runs) : InRun(L, L.runs[i], reader, Read, sp)
  <2>1. reader # NoneReader(len - Read)
    BY <1>1, SMT DEF NoneReader
  <2> QED
    BY <2>1, Zenon DEF ReaderAt
<1>3. PICK j \in 1..Len(L.runs) : InRun(L, L.runs[j], reader, Read, sp)
  BY <1>2
<1>4. /\ b = update.patch[Read + 1] /\ Read \in Nat /\ Read + 1 <= len
      /\ ChunkIsNext' /\ Read' = Read + 1
  BY <1>1, ChunkHead
<1> DEFINE run == L.runs[j]
<1>5. Read < Len(L.whole)
  BY <1>1, <1>2, <1>3, RunGoesOn
<1>6. b = L.whole[Read + 1]
  <2>1. Read + 1 \in 1..Len(L.whole)
    BY <1>4, <1>5, WholeIs
  <2> QED
    BY <1>4, <2>1, WholeIs
<1>7. /\ run.place \in Nat /\ run.data \in Nat /\ run.end \in Nat /\ run.from \in Nat /\ run.to \in Nat
      /\ IsRun(L, run) /\ run.data - (run.place + 1) \in 1..4 /\ run.data <= Len(L.whole)
      /\ run.from < run.to /\ L.whole \in Seq(Byte) /\ Len(L.whole) \in Nat
  BY <1>2, RunIs, WholeIs
<1> HIDE DEF run, b
<1>8. PICK head \in Nat, data \in Nat, from \in Nat, to \in Nat :
        /\ run.place + 1 = head /\ run.data = data /\ run.from = from /\ run.to = to
        /\ head < data /\ data <= head + 4 /\ data <= Len(L.whole) /\ from < to
  <2>1. PICK place \in Nat, data \in Nat, from \in Nat, to \in Nat :
          run.place = place /\ run.data = data /\ run.from = from /\ run.to = to
    BY <1>7
  <2>2. data - (place + 1) \in 1..4 /\ data <= Len(L.whole) /\ from < to
    BY <1>7, <2>1
  <2>3. place + 1 \in Nat /\ place + 1 < data /\ data <= (place + 1) + 4
    BY <2>2
  <2> QED
    BY <2>1, <2>2, <2>3, Zenon
<1> DEFINE nr == CrleHead(b)
<1> HIDE DEF nr
<1>9. reader = [kind |-> "crle", mode |-> reader.mode, size |-> reader.size,
                left |-> reader.left, value |-> reader.value]
  BY <1>3, Zenon DEF InRun, run
<1>10. /\ reader.mode = "idle" =>
            nr = [kind |-> "crle", mode |-> IF b = 0 THEN "size" ELSE "repetitions",
                  size |-> NoNum, left |-> 0, value |-> 0]
       /\ reader.mode = "value" =>
            nr = [kind |-> "crle", mode |-> "repeated", size |-> reader.size,
                  left |-> reader.left, value |-> b]
       /\ reader.mode = "size" /\ ~More(b) =>
            nr = [kind |-> "crle", mode |-> "scattered", size |-> reader.size,
                  left |-> UsizeByte(reader.size, b).value, value |-> reader.value]
       /\ reader.mode = "repetitions" /\ ~More(b) =>
            nr = [kind |-> "crle", mode |-> "value", size |-> reader.size,
                  left |-> UsizeByte(reader.size, b).value, value |-> reader.value]
       /\ reader.mode \in {"size", "repetitions"} /\ More(b) =>
            nr = [kind |-> "crle", mode |-> reader.mode, size |-> UsizeByte(reader.size, b),
                  left |-> reader.left, value |-> reader.value]
  BY <1>9, CrleHeadIs, SMTT(30) DEF nr
<1>11. SUFFICES /\ InRun(L, run, nr, Read + 1, sp)
                /\ reader.mode = "idle" => b \in {0, 1}
                /\ reader.mode \in {"size", "repetitions"} => ~Overlong(reader.size)
  <2>1. ASSUME InRun(L, run, nr, Read + 1, sp)
        PROVE  ReaderAt(L, len, nr, Read + 1, sp)
    BY <1>2, <2>1, Zenon DEF ReaderAt, run
  <2> QED
    BY <1>1, <1>4, <2>1, Zenon DEF nr, b
<1>12. CASE reader = CrleReader /\ Read = run.place /\ sp = run.from
  <2>1. reader.mode = "idle"
    BY <1>12 DEF CrleReader
  <2>2. b = L.whole[run.place + 1]
    BY <1>6, <1>12, Zenon
  <2>3. b = 0 \/ b = 1
    BY <1>7, <2>2, Zenon DEF IsRun
  <2>4. /\ nr = [kind |-> "crle", mode |-> nr.mode, size |-> nr.size, left |-> nr.left, value |-> nr.value]
        /\ nr.mode = (IF L.whole[run.place + 1] = 0 THEN "size" ELSE "repetitions") /\ nr.size = NoNum
    BY <1>10, <2>1, <2>2
  <2>5. \E k \in 0..(run.data - (run.place + 1) - 1) :
          Read + 1 = run.place + 1 + k /\ nr.size = NumSeven(L.whole, run.place + 1, k)
    <3>1. 0 \in 0..(data - head - 1) /\ head = head + 0
      BY <1>8
    <3>2. Read + 1 = head
      BY <1>8, <1>12, Zenon
    <3> QED
      BY <1>8, <2>4, <3>1, <3>2, NothingCounted, Zenon
  <2>6. InRun(L, run, nr, Read + 1, sp)
    BY <1>12, <2>4, <2>5, Zenon DEF InRun
  <2>7. ~(reader.mode \in {"size", "repetitions"})
    BY <2>1
  <2> QED
    BY <2>3, <2>6, <2>7
<1>13. CASE /\ reader.mode = (IF L.whole[run.place + 1] = 0 THEN "size" ELSE "repetitions")
            /\ sp = run.from
            /\ \E k \in 0..(run.data - (run.place + 1) - 1) :
                 Read = run.place + 1 + k /\ reader.size = NumSeven(L.whole, run.place + 1, k)
  <2>1. PICK k \in 0..(run.data - (run.place + 1) - 1) :
          Read = run.place + 1 + k /\ reader.size = NumSeven(L.whole, run.place + 1, k)
    BY <1>13
  <2>2. /\ k \in 0..3 /\ k \in 0..(data - head - 1) /\ head + k + 1 <= Len(L.whole) /\ Read = head + k
        /\ reader.size = NumSeven(L.whole, head, k) /\ b = L.whole[head + k + 1]
        /\ k + 1 \in 1..(data - head) /\ head + k + 1 = head + (k + 1)
    <3>1. /\ k \in 0..(data - head - 1) /\ Read = head + k
          /\ reader.size = NumSeven(L.whole, head, k)
      BY <1>8, <2>1, Zenon
    <3>2. k \in 0..3 /\ head + k + 1 <= Len(L.whole) /\ k + 1 \in 1..(data - head)
          /\ head + k + 1 = head + (k + 1)
      BY <1>7, <1>8, <3>1
    <3>3. b = L.whole[head + k + 1]
      BY <1>6, <3>1, Zenon
    <3> QED
      BY <3>1, <3>2, <3>3, Zenon
  <2>3. ~Overlong(reader.size) /\ UsizeByte(reader.size, b) = NumSeven(L.whole, head, k + 1)
    <3>1. L.whole \in Seq(Byte) /\ head \in Nat
      BY <1>7, Zenon
    <3> QED
      BY <2>2, <3>1, SevenMore, Zenon
  <2>4. /\ More(b) <=> k + 1 < data - head
        /\ to - from = Usize(L.whole, head, data - head)
    <3>1. IsUsize(L.whole, head, data, to - from)
      BY <1>7, <1>8, Zenon DEF IsRun
    <3> QED
      BY <2>2, <3>1 DEF IsUsize, IsNumber
  <2>5. CASE More(b)
    <3>1. /\ nr = [kind |-> "crle", mode |-> nr.mode, size |-> nr.size, left |-> nr.left, value |-> nr.value]
          /\ nr.mode = reader.mode /\ nr.size = NumSeven(L.whole, head, k + 1)
      <4>1. reader.mode \in {"size", "repetitions"}
        BY <1>13
      <4> QED
        BY <1>10, <2>3, <2>5, <4>1
    <3>2. \E i \in 0..(run.data - (run.place + 1) - 1) :
            Read + 1 = run.place + 1 + i /\ nr.size = NumSeven(L.whole, run.place + 1, i)
      <4>1. k + 1 \in 0..(data - head - 1) /\ Read + 1 = head + (k + 1)
        BY <1>8, <2>2, <2>4, <2>5
      <4> QED
        BY <1>8, <3>1, <4>1, Zenon
    <3>3. InRun(L, run, nr, Read + 1, sp)
      BY <1>13, <3>1, <3>2, Zenon DEF InRun
    <3>4. reader.mode # "idle"
      BY <1>13
    <3> QED
      BY <2>3, <3>3, <3>4
  <2>6. CASE ~More(b)
    <3>1. k + 1 = data - head /\ Read + 1 = data
      BY <1>8, <2>2, <2>4, <2>6
    <3>2. UsizeByte(reader.size, b).value = to - from
      <4>1. NumSeven(L.whole, head, data - head).value = Usize(L.whole, head, data - head)
        BY DEF NumSeven
      <4> QED
        BY <2>3, <2>4, <3>1, <4>1
    <3>3. reader.mode # "idle" /\ sp \in run.from..(run.to - 1) /\ run.to - sp = to - from
          /\ Read + 1 = run.data + (sp - run.from) /\ Read + 1 = run.data /\ to - from = run.to - run.from
      <4>1. sp = from
        BY <1>8, <1>13
      <4>2. reader.mode # "idle"
        BY <1>13
      <4>3. sp \in from..(to - 1) /\ data = data + (sp - from)
        BY <1>8, <4>1
      <4> QED
        BY <1>8, <3>1, <4>1, <4>2, <4>3, Zenon
    <3>4. CASE L.whole[run.place + 1] = 0
      <4>1. reader.mode = "size"
        BY <1>13, <3>4
      <4>2. /\ nr = [kind |-> "crle", mode |-> nr.mode, size |-> nr.size, left |-> nr.left, value |-> nr.value]
            /\ nr.mode = "scattered" /\ nr.left = run.to - sp
        BY <1>10, <2>6, <3>2, <3>3, <4>1
      <4>3. InRun(L, run, nr, Read + 1, sp)
        BY <3>3, <3>4, <4>2, Zenon DEF InRun
      <4> QED
        BY <2>3, <3>3, <4>3
    <3>5. CASE L.whole[run.place + 1] # 0
      <4>1. reader.mode = "repetitions" /\ L.whole[run.place + 1] = 1
        <5>1. L.whole[run.place + 1] = 1
          BY <1>7, <3>5, Zenon DEF IsRun
        <5> QED
          BY <1>13, <3>5, <5>1
      <4>2. /\ nr = [kind |-> "crle", mode |-> nr.mode, size |-> nr.size, left |-> nr.left, value |-> nr.value]
            /\ nr.mode = "value" /\ nr.left = run.to - run.from
        BY <1>10, <2>6, <3>2, <3>3, <4>1
      <4>3. InRun(L, run, nr, Read + 1, sp)
        BY <1>13, <3>3, <4>1, <4>2, Zenon DEF InRun
      <4> QED
        BY <2>3, <3>3, <4>3
    <3> QED
      BY <3>4, <3>5
  <2> QED
    BY <2>5, <2>6
<1>14. CASE /\ reader.mode = "value" /\ L.whole[run.place + 1] = 1
            /\ Read = run.data /\ reader.left = run.to - run.from /\ sp = run.from
  <2>1. run.end = run.data + 1
    BY <1>7, <1>14, RunKinds, Zenon
  <2>2. /\ nr = [kind |-> "crle", mode |-> nr.mode, size |-> nr.size, left |-> nr.left, value |-> nr.value]
        /\ nr.mode = "repeated" /\ nr.left = run.to - sp /\ nr.value = L.whole[run.end]
    BY <1>6, <1>10, <1>14, <2>1
  <2>3. sp \in run.from..(run.to - 1) /\ Read + 1 = run.end
    BY <1>8, <1>14, <2>1
  <2>4. InRun(L, run, nr, Read + 1, sp)
    BY <1>14, <2>2, <2>3, Zenon DEF InRun
  <2>5. reader.mode # "idle" /\ ~(reader.mode \in {"size", "repetitions"})
    BY <1>14
  <2> QED
    BY <2>4, <2>5
<1> QED
  BY <1>1, <1>3, <1>12, <1>13, <1>14, Zenon DEF InRun, run

\* The decoder finds the patch at its end only when it was cut short.
LEMMA StarvedOfIt ==
  ASSUME NEW L, WrittenAs(update, L), update.image # <<>>, ChunkIsNext,
         NEW sp \in 0..(Len(L.stream) - 1), ReaderAt(L, Len(update.patch), reader, Read, sp),
         Wants \in Nat, sp + Wants <= Len(L.stream), Starve
  PROVE  ~update.sound
<1> DEFINE len == Len(update.patch)
<1>1. /\ Wants > 0
      /\ \/ reader.kind = "none" /\ Wants > reader.left
         \/ ~BeyondPatch /\ Gives = 0 /\ chunk = <<>> /\ Exhausted
  BY Zenon DEF Starve, Needs, BeyondPatch, Exhausted
<1>2. /\ Read \in 0..len /\ len \in Nat
      /\ Exhausted => Read = len
      /\ Len(L.whole) \in Nat /\ Len(L.stream) \in Nat /\ L.header \in Nat
      /\ update.sound => len >= Len(L.whole)
  BY ChunkEnds, WholeIs
<1>3. CASE L.whole[1] = 0
  <2>1. /\ reader = NoneReader(len - Read) /\ Read = L.header + sp /\ Len(L.whole) = L.header + Len(L.stream)
    BY <1>3, PlainIs DEF ReaderAt
  <2>2. reader.left = len - Read
    BY <2>1 DEF NoneReader
  <2>3. Wants > len - Read
    BY <1>1, <1>2, <2>2
  <2>4. len < Len(L.whole)
    <3>0. sp \in Nat
      BY <1>2
    <3>1. PICK p \in Nat, w \in Nat, h \in Nat, n \in Nat, x \in Nat :
            len = p /\ Wants = w /\ L.header = h /\ Len(L.stream) = n /\ sp = x
      BY <1>2, <3>0, Zenon
    <3>2. w > p - (h + x) /\ x + w <= n
      BY <2>1, <2>3, <3>1
    <3>3. p < h + n
      BY <3>2
    <3> QED
      BY <2>1, <3>1, <3>3
  <2> QED
    BY <1>2, <2>4
<1>4. CASE L.whole[1] = 2
  <2>1. PICK j \in 1..Len(L.runs) : InRun(L, L.runs[j], reader, Read, sp)
    BY <1>4 DEF ReaderAt
  <2> DEFINE run == L.runs[j]
  <2>2. reader.kind = "crle"
    <3>1. reader = [kind |-> "crle", mode |-> reader.mode, size |-> reader.size,
                    left |-> reader.left, value |-> reader.value]
      BY <2>1, Zenon DEF InRun
    <3>2. [kind |-> "crle", mode |-> reader.mode, size |-> reader.size,
                    left |-> reader.left, value |-> reader.value].kind = "crle"
      OBVIOUS
    <3> QED
      BY <3>1, <3>2, Zenon
  <2>3. Gives = 0 /\ Read = len
    BY <1>1, <1>2, <2>2
  <2>4. reader.mode # "repeated"
    <3>1. ASSUME reader.mode = "repeated"
          PROVE  FALSE
      <4>1. Gives = Least(Wants, reader.left)
        BY <2>2, <3>1, SMT DEF Gives
      <4>2. sp \in run.from..(run.to - 1) /\ reader.left = run.to - sp
        BY <2>1, <3>1, SMT DEF InRun, CrleReader
      <4>3. run.from \in Nat /\ run.to \in Nat
        BY <1>4, RunIs
      <4>4. reader.left \in Nat /\ reader.left > 0
        <5>1. \A a, b \in Nat : \A x \in a..(b - 1) : b - x \in Nat /\ b - x > 0
          OBVIOUS
        <5> QED
          BY <4>2, <4>3, <5>1, Zenon
      <4> QED
        BY <1>1, <2>3, <4>1, <4>4 DEF Least
    <3> QED
      BY <3>1
  <2>5. Read < Len(L.whole)
    BY <1>4, <2>1, <2>4, RunGoesOn
  <2> QED
    BY <1>2, <2>3, <2>5
<1>5. L.whole[1] = 0 \/ L.whole[1] = 2
  BY WholeIs
<1> QED
  BY <1>3, <1>4, <1>5

-----------------------------------------------------------------------------
(* The parts of the stream.                                                  *)

\* The places of a part, and what follows it.
LEMMA PartIs ==
  ASSUME NEW L, WrittenAs(update, L), update.image # <<>>,
         NEW i \in 1..Len(L.parts), NEW p, p = L.parts[i]
  PROVE  /\ p.diff_size \in Nat /\ p.diff_data \in Nat /\ p.extra_size \in Nat /\ p.extra_data \in Nat
         /\ p.adjustment \in Nat /\ p.end \in Nat /\ p.base \in Nat /\ p.to \in Nat /\ p.next \in Nat
         /\ Diff(p) \in Nat /\ Extra(p) \in Nat
         /\ p.diff_size < p.diff_data /\ p.diff_data <= p.extra_size /\ p.extra_size < p.extra_data
         /\ p.extra_data <= p.adjustment /\ p.adjustment < p.end /\ p.end <= Len(L.stream)
         /\ IsPart(L, update.image, p) /\ p.to + Diff(p) + Extra(p) <= Len(update.image)
         /\ IsNumber(L.stream, p.diff_size, p.diff_data) /\ IsNumber(L.stream, p.extra_size, p.extra_data)
         /\ IsNumber(L.stream, p.adjustment, p.end)
         /\ p.to + Diff(p) + Extra(p) = Len(update.image) <=> p.end = Len(L.stream)
         /\ p.end < Len(L.stream) =>
              \A c : StreamAt(L, "diff_size", NoNum, c, p.next, p.to + Diff(p) + Extra(p), p.end)
<1> DEFINE n == Len(L.parts)
           image == update.image
<1>1. /\ L.parts \in Seq(Part) /\ n > 0
      /\ \A k \in 1..n : IsPart(L, image, L.parts[k])
      /\ \A k \in 1..(n - 1) :
           /\ L.parts[k + 1].diff_size = L.parts[k].end /\ L.parts[k + 1].base = L.parts[k].next
           /\ L.parts[k + 1].to = L.parts[k].to + Diff(L.parts[k]) + Extra(L.parts[k])
           /\ L.parts[k + 1].to < Len(image)
      /\ L.parts[n].end = Len(L.stream)
      /\ L.parts[n].to + Diff(L.parts[n]) + Extra(L.parts[n]) = Len(image)
  BY DEF WrittenAs, IsLayout, IsParts
<1>2. n \in Nat /\ p \in Part /\ Len(L.stream) \in Nat /\ Len(image) \in Nat
  BY <1>1, LenProperties, ElementOfSeq, WholeIs
<1>3. /\ p.diff_size \in Nat /\ p.diff_data \in Nat /\ p.extra_size \in Nat /\ p.extra_data \in Nat
      /\ p.adjustment \in Nat /\ p.end \in Nat /\ p.base \in Nat /\ p.to \in Nat /\ p.next \in Nat
  BY <1>2 DEF Part
<1>4. /\ IsPart(L, image, p)
      /\ p.diff_data <= p.extra_size /\ p.extra_data <= p.adjustment /\ p.end <= Len(L.stream)
      /\ p.to + Diff(p) + Extra(p) <= Len(image)
      /\ IsNumber(L.stream, p.diff_size, p.diff_data) /\ IsNumber(L.stream, p.extra_size, p.extra_data)
      /\ IsNumber(L.stream, p.adjustment, p.end)
  <2>1. IsPart(L, image, p)
    BY <1>1
  <2> QED
    BY <2>1, Zenon DEF IsPart, IsSize
<1>5. \A a \in Nat, b \in Nat : IsNumber(L.stream, a, b) => a < b
  BY DEF IsNumber
<1>6. /\ p.diff_size < p.diff_data /\ p.extra_size < p.extra_data /\ p.adjustment < p.end
  BY <1>3, <1>4, <1>5, Zenon
<1>7. Diff(p) \in Nat /\ Extra(p) \in Nat
  <2>1. \A a, b \in Nat : a <= b => b - a \in Nat
    OBVIOUS
  <2> QED
    BY <1>3, <1>4, <2>1, Zenon DEF Diff, Extra
<1>8. ASSUME i # n
      PROVE  /\ p.to + Diff(p) + Extra(p) < Len(image) /\ p.end < Len(L.stream)
             /\ \A c : StreamAt(L, "diff_size", NoNum, c, p.next, p.to + Diff(p) + Extra(p), p.end)
  <2>1. i \in 1..(n - 1) /\ i + 1 \in 1..n
    BY <1>2, <1>8
  <2> DEFINE q == L.parts[i + 1]
  <2>2. q.diff_size = p.end /\ q.base = p.next /\ q.to = p.to + Diff(p) + Extra(p) /\ q.to < Len(image)
    BY <1>1, <2>1
  <2>3. q \in Part /\ IsPart(L, image, q)
    BY <1>1, <2>1, ElementOfSeq
  <2> HIDE DEF q
  <2>4. IsNumber(L.stream, q.diff_size, q.diff_data)
    BY <2>3, Zenon DEF IsPart, IsSize
  <2>5. p.end < Len(L.stream)
    <3>1. \A a, b : IsNumber(L.stream, a, b) /\ Len(L.stream) \in Nat => a < Len(L.stream)
      BY DEF IsNumber
    <3> QED
      BY <1>2, <1>3, <2>2, <2>4, <3>1, Zenon
  <2>6. HalfRead(L.stream, q.diff_size, q.diff_data, NoNum, p.end)
    BY <2>2, <2>4, NothingRead
  <2>7. \A c : InPart(L, q, "diff_size", NoNum, c, p.next, p.to + Diff(p) + Extra(p), p.end)
    BY <2>2, <2>6, Zenon DEF InPart
  <2> QED
    BY <2>1, <2>2, <2>5, <2>7, Zenon DEF StreamAt, q
<1>9. CASE i = n
  <2>1. p.end = Len(L.stream) /\ p.to + Diff(p) + Extra(p) = Len(image)
    BY <1>1, <1>9
  <2>2. ~(p.end < Len(L.stream))
    BY <1>2, <2>1
  <2> QED
    BY <1>3, <1>4, <1>6, <1>7, <2>1, <2>2, Zenon
<1>10. CASE i # n
  <2>1. p.end # Len(L.stream) /\ p.to + Diff(p) + Extra(p) # Len(image)
    BY <1>2, <1>3, <1>7, <1>8, <1>10
  <2> QED
    BY <1>3, <1>4, <1>6, <1>7, <1>8, <1>10, <2>1, Zenon
<1> QED
  BY <1>9, <1>10

\* The decoder asks for no more than the stream has.
LEMMA StreamWants ==
  ASSUME NEW L, WrittenAs(update, L), NEW sp, InStream(L, sp)
  PROVE  /\ state \in SizeStates \/ state \in DataStates
         /\ Wants \in Nat /\ sp + Wants <= Len(L.stream)
         /\ state \in SizeStates => Wants = 1
         /\ state \in DataStates => chunk_size \in Nat /\ Wants <= chunk_size /\ (Wants = 0 => chunk_size = 0)
<1>1. sp \in 0..(Len(L.stream) - 1) /\ update.image # <<>> /\ Len(L.stream) \in Nat
      /\ StreamAt(L, state, num, chunk_size, base_pos, Len(sink), sp)
  BY WholeIs DEF InStream
<1>2. \/ state = "dfpatch_size"
      \/ \E i \in 1..Len(L.parts) :
           InPart(L, L.parts[i], state, num, chunk_size, base_pos, Len(sink), sp)
  BY <1>1, Zenon DEF StreamAt
<1>3. state \in SizeStates \/ state \in DataStates
  BY <1>2 DEF InPart, SizeStates, DataStates
<1>4. CASE state \in SizeStates
  <2>1. Wants = 1 /\ state \notin DataStates
    BY <1>4 DEF Wants, SizeStates, DataStates
  <2> QED
    BY <1>1, <1>4, <2>1
<1>5. CASE state \in DataStates
  <2>1. state \notin SizeStates /\ state # "dfpatch_size"
    BY <1>5 DEF SizeStates, DataStates
  <2>2. Wants = Least(PieceLen, chunk_size)
    BY <1>5, <2>1 DEF Wants
  <2>3. PICK i \in 1..Len(L.parts) : InPart(L, L.parts[i], state, num, chunk_size, base_pos, Len(sink), sp)
    BY <1>2, <2>1
  <2> DEFINE p == L.parts[i]
  <2>4. /\ p.diff_data \in Nat /\ p.extra_size \in Nat /\ p.extra_data \in Nat /\ p.adjustment \in Nat
        /\ p.extra_size <= Len(L.stream) /\ p.adjustment <= Len(L.stream)
    <3>1. /\ p.diff_data \in Nat /\ p.extra_size \in Nat /\ p.extra_data \in Nat /\ p.adjustment \in Nat
          /\ p.end \in Nat /\ p.extra_size < p.extra_data /\ p.extra_data <= p.adjustment
          /\ p.adjustment < p.end /\ p.end <= Len(L.stream)
      BY <1>1, PartIs
    <3>2. PICK a \in Nat, b \in Nat, c \in Nat, d \in Nat, n \in Nat :
            p.extra_size = a /\ p.extra_data = b /\ p.adjustment = c /\ p.end = d /\ Len(L.stream) = n
      BY <1>1, <3>1, Zenon
    <3>3. a < b /\ b <= c /\ c < d /\ d <= n
      BY <3>1, <3>2
    <3>4. a <= n /\ c <= n
      BY <3>3
    <3> QED
      BY <3>1, <3>2, <3>4
  <2>5. \/ sp \in p.diff_data..p.extra_size /\ chunk_size = p.extra_size - sp
        \/ sp \in p.extra_data..p.adjustment /\ chunk_size = p.adjustment - sp
    BY <1>5, <2>3 DEF InPart, DataStates
  <2> HIDE DEF p
  <2>6. chunk_size \in Nat /\ sp + chunk_size <= Len(L.stream)
    BY <1>1, <2>4, <2>5
  <2>7. Wants \in Nat /\ Wants <= chunk_size /\ (Wants = 0 => chunk_size = 0)
    BY <2>2, <2>6, HeaderFitsChunk DEF Least
  <2>8. sp + Wants <= Len(L.stream)
    BY <1>1, <2>6, <2>7
  <2> QED
    BY <1>5, <2>1, <2>6, <2>7, <2>8
<1> QED
  BY <1>3, <1>4, <1>5

-----------------------------------------------------------------------------
(* The steps.                                                                *)

\* The call goes on, or returns an error that it has to.
LEMMA Going ==
  ASSUME NEW L, ChunkIsNext', SinkIsGood', result' = Running, ~failed', Reading(L)'
  PROVE  At(L)'
BY DEF At, ResultIsTrue

\* A call that ends in an error, which an update that is sound only does when something failed.
LEMMA Failing ==
  ASSUME NEW L, ChunkIsNext', SinkIsGood', NEW code \in Int, code < 0, code # Running, result' = code,
         update'.sound => failed'
  PROVE  At(L)'
<1>1. ~Succeeded' /\ result' # Running
  BY DEF Succeeded
<1> QED
  BY <1>1 DEF At, ResultIsTrue

\* What is not written stays good.
LEMMA SinkStays ==
  ASSUME SinkIsGood, UNCHANGED <<update, sink>>
  PROVE  SinkIsGood'
BY DEF SinkIsGood

\* What is not read of the chunk is still next.
LEMMA ChunkStays ==
  ASSUME ChunkIsNext, UNCHANGED <<update, patch_offset, chunk>>
  PROVE  ChunkIsNext' /\ Read' = Read
BY DEF ChunkIsNext, Read

\* Where the decoder is in each state.
LEMMA ReadingIs ==
  ASSUME NEW L, Reading(L), WrittenAs(update, L)
  PROVE  /\ state = "init" => Read = 0 /\ num = NoNum /\ base_pos = 0 /\ sink = <<>>
         /\ state = "to_size" =>
              /\ compression = L.whole[1] /\ base_pos = 0 /\ sink = <<>>
              /\ HalfRead(L.whole, 1, L.header, num, Read)
         /\ state = "done" =>
              to_size = Len(sink) /\ Len(sink) = Len(update.image) /\ (DestroyOk <=> update.sound)
         /\ state \in SizeStates \/ state \in DataStates => \E sp : InStream(L, sp)
<1>1. \A sp : InStream(L, sp) => state # "init" /\ state # "to_size" /\ state # "done"
  <2>1. state \in SizeStates \/ state \in DataStates => state # "init" /\ state # "to_size" /\ state # "done"
    BY DEF SizeStates, DataStates
  <2> QED
    BY <2>1, StreamWants, Zenon
<1>2. state \in SizeStates \/ state \in DataStates => state # "init" /\ state # "to_size" /\ state # "done"
  BY DEF SizeStates, DataStates
<1>3. CASE state = "init"
  BY <1>1, <1>2, <1>3 DEF Reading
<1>4. CASE state = "to_size"
  BY <1>1, <1>2, <1>4 DEF Reading
<1>5. CASE state = "done"
  BY <1>1, <1>2, <1>5 DEF Reading
<1> QED
  BY <1>1, <1>2, <1>3, <1>4, <1>5, Zenon DEF Reading

\* Reading a chunk moves nothing else.
LEMMA PatchReadStep ==
  ASSUME NEW L, At(L), PatchRead
  PROVE  At(L)'
<1>1. /\ ChunkIsNext /\ SinkIsGood /\ ~failed /\ Reading(L) /\ result = Running
      /\ UNCHANGED <<update, state, reader, num, chunk_size, base_pos, sink, failed, result,
                     compression, to_size>>
  BY DEF At, PatchRead, header
<1>2. ChunkIsNext' /\ Read' = Read
  BY <1>1, ChunkRead
<1>3. Reading(L)'
  <2>1. DestroyOk' <=> DestroyOk
    BY <1>1 DEF DestroyOk
  <2>2. \A sp : InStream(L, sp) => InStream(L, sp)'
    BY <1>1, <1>2 DEF InStream
  <2> QED
    BY <1>1, <1>2, <2>1, <2>2, Zenon DEF Reading
<1>4. SinkIsGood'
  BY <1>1, SinkStays
<1> QED
  BY <1>1, <1>2, <1>3, <1>4, Going

\* Bytes after the image is complete are dropped.
LEMMA TrailingStep ==
  ASSUME NEW L, WrittenAs(update, L), At(L), Trailing
  PROVE  At(L)'
<1>1. /\ ChunkIsNext /\ SinkIsGood /\ ~failed /\ Reading(L) /\ result = Running /\ state = "done"
      /\ chunk' = <<>>
      /\ UNCHANGED <<update, patch_offset, state, reader, sink, failed, result, to_size>>
  BY DEF At, Trailing, header, io
<1>2. ChunkIsNext'
  BY <1>1, LenProperties DEF ChunkIsNext
<1>3. to_size = Len(sink) /\ Len(sink) = Len(update.image) /\ (DestroyOk <=> update.sound)
  BY <1>1, ReadingIs
<1>4. Reading(L)'
  BY <1>1, <1>3 DEF Reading, DestroyOk
<1>5. SinkIsGood'
  BY <1>1, SinkStays
<1> QED
  BY <1>1, <1>2, <1>4, <1>5, Going

\* The image is complete when the call succeeds.
LEMMA FinalizeStep ==
  ASSUME NEW L, WrittenAs(update, L), At(L), Finalize
  PROVE  At(L)'
<1>1. /\ ChunkIsNext /\ SinkIsGood /\ ~failed /\ Reading(L) /\ state = "done"
      /\ result' = (IF DestroyOk THEN to_size ELSE CorruptPatch)
      /\ UNCHANGED <<update, patch_offset, chunk, sink, failed>>
  BY DEF At, Finalize, Turn, io
<1>2. to_size = Len(sink) /\ Len(sink) = Len(update.image) /\ (DestroyOk <=> update.sound)
  BY <1>1, ReadingIs
<1>3. ChunkIsNext' /\ SinkIsGood'
  BY <1>1, ChunkStays, SinkStays
<1>4. Len(sink) \in Nat /\ sink \in Seq(Byte) /\ update.image \in Seq(Byte)
  BY <1>1, WholeIs, LenProperties DEF SinkIsGood
<1>5. sink = update.image
  BY <1>1, <1>2, <1>4, SeqEqual DEF SinkIsGood
<1>6. result' # Running
  BY <1>1, <1>2, <1>4 DEF Running, CorruptPatch
<1>7. Succeeded' <=> update.sound
  BY <1>1, <1>2, <1>4 DEF Succeeded, CorruptPatch
<1>8. Succeeded' => result' = Len(sink)
  BY <1>1, <1>2 DEF Succeeded, CorruptPatch
<1>9. ResultIsTrue'
  BY <1>1, <1>5, <1>7, <1>8, Zenon DEF ResultIsTrue
<1> QED
  BY <1>3, <1>6, <1>9 DEF At

\* The type of the patch and its compression.
LEMMA FixedHeaderStep ==
  ASSUME NEW L, WrittenAs(update, L), At(L), FixedHeader
  PROVE  At(L)'
<1> DEFINE b == Head(chunk)
<1>1. /\ ChunkIsNext /\ SinkIsGood /\ ~failed /\ Reading(L) /\ state = "init" /\ result = Running
      /\ UNCHANGED <<update, patch_offset, base_pos, sink, failed>>
      /\ chunk # <<>> \/ Exhausted
  BY DEF At, FixedHeader, Turn, io
<1>2. Read = 0 /\ num = NoNum /\ base_pos = 0 /\ sink = <<>>
  BY <1>1, ReadingIs
<1>3. SinkIsGood'
  BY <1>1, SinkStays
<1>4. CASE chunk = <<>> /\ Fail(ShortHeader)
  <2>1. result' = ShortHeader /\ chunk' = chunk
    BY <1>4 DEF Fail
  <2>2. ChunkIsNext'
    BY <1>1, <2>1, ChunkStays
  <2>3. Exhausted /\ Read = Len(update.patch)
    BY <1>1, <1>4, ChunkEnds
  <2>4. ~update.sound
    BY <1>2, <2>3, WholeIs
  <2> QED
    BY <1>1, <1>3, <2>1, <2>2, <2>4, Failing DEF ShortHeader, Running
<1>5. ASSUME chunk # <<>>
      PROVE  b = L.whole[1]
  <2>1. b = update.patch[1] /\ Len(update.patch) >= 1
    BY <1>1, <1>2, <1>5, ChunkHead
  <2> QED
    BY <2>1, WholeIs
<1>6. ASSUME chunk # <<>>
      PROVE  b \in {0, 2} /\ (b \div 16) % 8 = 0 /\ b % 16 = b
  <2>1. b = 0 \/ b = 2
    BY <1>5, <1>6, WholeIs
  <2>2. CASE b = 0
    BY <2>2
  <2>3. CASE b = 2
    BY <2>3
  <2> QED
    BY <2>1, <2>2, <2>3
<1>7. CASE /\ chunk # <<>> /\ compression' = b % 16 /\ state' = "to_size" /\ chunk' = Tail(chunk)
           /\ num' = num /\ result' = result
  <2>1. ChunkIsNext' /\ Read' = 1
    BY <1>1, <1>2, <1>7, ChunkHead
  <2>2. HalfRead(L.whole, 1, L.header, NoNum, 1)
    <3>1. IsNumber(L.whole, 1, L.header)
      BY WholeIs DEF IsSize
    <3> QED
      BY <3>1, NothingRead
  <2>3. HalfRead(L.whole, 1, L.header, num, Read)'
    BY <1>2, <1>7, <2>1, <2>2
  <2>4. compression' = L.whole[1]
    BY <1>5, <1>6, <1>7
  <2>5. Reading(L)'
    BY <1>1, <1>2, <1>7, <2>3, <2>4, Zenon DEF Reading
  <2> QED
    BY <1>1, <1>3, <1>7, <2>1, <2>5, Going
<1> QED
  BY <1>4, <1>6, <1>7, Zenon DEF FixedHeader

\* The size in the header, which is not negative.
LEMMA SizeValue ==
  ASSUME NEW s \in Seq(Byte), NEW place, NEW end, NEW v \in Nat, IsSize(s, place, end, v)
  PROVE  NumSix(s, place, end - place).value = v
<1>1. place \in Nat /\ end \in Nat /\ end - place \in 1..4 /\ end <= Len(s) /\ Len(s) \in Nat
  BY LenProperties DEF IsSize, IsNumber
<1>2. PICK k \in 0..3 : end - place = k + 1
  BY <1>1
<1>3. \A j \in 1..(k + 1) : s[place + j] \in Byte
  <2>1. \A j \in 1..(k + 1) : place + j \in 1..Len(s)
    BY <1>1, <1>2
  <2> QED
    BY <2>1, ElementOfSeq
<1>4. \A j \in 1..4 : Digit(s, place, k + 1, j) \in Nat
  BY <1>1, <1>3, DigitMore
<1>5. Six(s[place + 1]) \in Nat
  <2>1. 1 \in 1..(k + 1)
    OBVIOUS
  <2> QED
    BY <1>3, <2>1, LowBits
<1>6. Magnitude(s, place, end - place) \in Nat
  <2>1. PICK a \in Nat, b \in Nat, c \in Nat, d \in Nat :
          /\ Six(s[place + 1]) = a /\ Digit(s, place, k + 1, 2) = b
          /\ Digit(s, place, k + 1, 3) = c /\ Digit(s, place, k + 1, 4) = d
    BY <1>4, <1>5
  <2>2. PICK m \in Nat : m = a + 64 * (b + 128 * (c + 128 * d))
    BY SMT
  <2>3. Magnitude(s, place, k + 1) = m
    BY <2>1, <2>2, Zenon DEF Magnitude
  <2> QED
    BY <1>2, <2>3, Zenon
<1>7. v = Magnitude(s, place, end - place)
  BY <1>6 DEF IsSize
<1>8. NumSix(s, place, end - place).value = Magnitude(s, place, end - place)
  <2>1. end - place # 0
    BY <1>1
  <2> QED
    BY <2>1 DEF NumSix
<1> QED
  BY <1>7, <1>8

\* The reader begins with the stream.
LEMMA ReaderBegins ==
  ASSUME NEW L, WrittenAs(update, L), update.image # <<>>, NEW len
  PROVE  /\ L.whole[1] = 0 => ReaderAt(L, len, NoneReader(len - L.header), L.header, 0)
         /\ L.whole[1] = 2 => ReaderAt(L, len, CrleReader, L.header, 0)
         /\ 0 < Len(L.stream) /\ StreamAt(L, "diff_size", NoNum, 0, 0, 0, 1)
         /\ 1 < Len(L.stream) /\ L.stream[1] = 0
<1>1. L.whole[1] = 0 => ReaderAt(L, len, NoneReader(len - L.header), L.header, 0)
  <2>1. L.header = L.header + 0
    BY WholeIs
  <2> QED
    BY <2>1 DEF ReaderAt
<1>2. ASSUME L.whole[1] = 2
      PROVE  ReaderAt(L, len, CrleReader, L.header, 0)
  <2>1. L.runs \in Seq(Run) /\ Len(L.runs) > 0 /\ L.runs[1].place = L.header /\ L.runs[1].from = 0
    BY <1>2 DEF WrittenAs, IsLayout, IsRuns
  <2>2. 1 \in 1..Len(L.runs)
    BY <2>1, LenProperties
  <2>3. CrleReader = [kind |-> "crle", mode |-> CrleReader.mode, size |-> CrleReader.size,
                      left |-> CrleReader.left, value |-> CrleReader.value]
    BY DEF CrleReader
  <2>4. InRun(L, L.runs[1], CrleReader, L.header, 0)
    BY <2>1, <2>3, Zenon DEF InRun
  <2> QED
    BY <1>2, <2>2, <2>4, Zenon DEF ReaderAt
<1>3. L.parts \in Seq(Part) /\ Len(L.parts) > 0 /\ L.parts[1].diff_size = 1
      /\ L.parts[1].base = 0 /\ L.parts[1].to = 0 /\ L.stream[1] = 0
  BY DEF WrittenAs, IsLayout, IsParts
<1>4. 1 \in 1..Len(L.parts)
  BY <1>3, LenProperties
<1>5. IsNumber(L.stream, 1, L.parts[1].diff_data)
  BY <1>3, <1>4, PartIs
<1>6. StreamAt(L, "diff_size", NoNum, 0, 0, 0, 1)
  <2>1. HalfRead(L.stream, 1, L.parts[1].diff_data, NoNum, 1)
    BY <1>5, NothingRead
  <2>2. InPart(L, L.parts[1], "diff_size", NoNum, 0, 0, 0, 1)
    BY <1>3, <2>1, Zenon DEF InPart
  <2> QED
    BY <1>4, <2>2, Zenon DEF StreamAt
<1>7. 1 < Len(L.stream) /\ 0 < Len(L.stream)
  BY <1>5, WholeIs DEF IsNumber
<1> QED
  BY <1>1, <1>2, <1>3, <1>6, <1>7

\* A byte of the size in the header; the last one picks the reader.
LEMMA HeaderSizeStep ==
  ASSUME NEW L, WrittenAs(update, L), At(L), HeaderSize
  PROVE  At(L)'
<1> DEFINE b == Head(chunk)
<1>1. /\ ChunkIsNext /\ SinkIsGood /\ ~failed /\ Reading(L) /\ state = "to_size" /\ result = Running
      /\ UNCHANGED <<update, patch_offset, base_pos, sink, failed>>
      /\ chunk # <<>> \/ Exhausted
  BY DEF At, HeaderSize, Turn, io
<1>2. compression = L.whole[1] /\ base_pos = 0 /\ sink = <<>> /\ HalfRead(L.whole, 1, L.header, num, Read)
  BY <1>1, ReadingIs
<1>3. SinkIsGood'
  BY <1>1, SinkStays
<1>4. /\ L.whole \in Seq(Byte) /\ IsSize(L.whole, 1, L.header, Len(update.image))
      /\ IsNumber(L.whole, 1, L.header) /\ Len(update.image) \in Nat
      /\ L.header \in 2..Len(L.whole) /\ Len(L.whole) \in Nat /\ Len(update.patch) \in Nat
  BY WholeIs, LenProperties DEF IsSize
<1>5. /\ Read \in 1..(L.header - 1) /\ ~Overlong(num)
      /\ More(L.whole[Read + 1]) => HalfRead(L.whole, 1, L.header, SizeByte(num, L.whole[Read + 1]), Read + 1)
      /\ ~More(L.whole[Read + 1]) =>
           Read + 1 = L.header /\ SizeByte(num, L.whole[Read + 1]) = NumSix(L.whole, 1, L.header - 1)
  BY <1>2, <1>4, HalfReadByte
<1>6. CASE chunk = <<>> /\ Fail(NotEnoughData)
  <2>1. result' = NotEnoughData /\ chunk' = chunk
    BY <1>6 DEF Fail
  <2>2. ChunkIsNext'
    BY <1>1, <2>1, ChunkStays
  <2>3. Exhausted /\ Read = Len(update.patch)
    BY <1>1, <1>6, ChunkEnds
  <2>4. Len(update.patch) < Len(L.whole)
    BY <1>4, <1>5, <2>3
  <2>5. ~update.sound
    BY <1>4, <2>4, WholeIs
  <2> QED
    BY <1>1, <1>3, <2>1, <2>2, <2>5, Failing DEF NotEnoughData, Running
<1>7. ASSUME chunk # <<>>
      PROVE  /\ b = L.whole[Read + 1]
             /\ chunk' = Tail(chunk) => ChunkIsNext' /\ Read' = Read + 1 /\ Read' <= Len(update.patch)
  <2>1. /\ b = update.patch[Read + 1] /\ Read + 1 <= Len(update.patch)
        /\ chunk' = Tail(chunk) => ChunkIsNext' /\ Read' = Read + 1
    BY <1>1, <1>7, ChunkHead
  <2>2. Read + 1 \in 1..Len(L.whole)
    BY <1>4, <1>5
  <2>3. update.patch[Read + 1] = L.whole[Read + 1]
    BY <2>1, <2>2, WholeIs
  <2> QED
    BY <2>1, <2>3
<1>8. CASE /\ chunk # <<>> /\ More(b) /\ num' = SizeByte(num, b) /\ chunk' = Tail(chunk)
           /\ UNCHANGED <<state, result, compression>>
  <2>1. ChunkIsNext' /\ Read' = Read + 1
    BY <1>7, <1>8
  <2>2. HalfRead(L.whole, 1, L.header, num', Read')
    BY <1>5, <1>7, <1>8, <2>1
  <2>3. Reading(L)'
    BY <1>1, <1>2, <1>8, <2>2, Zenon DEF Reading
  <2> QED
    BY <1>1, <1>3, <1>8, <2>1, <2>3, Going
<1>9. CASE /\ chunk # <<>> /\ ~More(b) /\ chunk' = Tail(chunk) /\ num' = NoNum
           /\ to_size' = SizeByte(num, b).value
           /\ reader' = (IF compression = 2 THEN CrleReader
                         ELSE NoneReader(Len(update.patch) - (patch_offset - Len(Tail(chunk)))))
           /\ state' = (IF to_size' > 0 THEN "dfpatch_size" ELSE "done")
           /\ result' = result
  <2>1. ChunkIsNext' /\ Read' = L.header /\ L.header <= Len(update.patch)
    BY <1>5, <1>7, <1>9
  <2>2. to_size' = Len(update.image)
    BY <1>4, <1>5, <1>7, <1>9, SizeValue
  <2>3. reader' = IF L.whole[1] = 2 THEN CrleReader ELSE NoneReader(Len(update.patch) - L.header)
    <3>1. Read' = patch_offset - Len(Tail(chunk))
      BY <1>1, <1>9 DEF Read
    <3> QED
      BY <1>2, <1>9, <2>1, <3>1
  <2>4. L.whole[1] = 0 \/ L.whole[1] = 2
    BY WholeIs
  <2>5. CASE update.image = <<>>
    <3>1. state' = "done" /\ to_size' = 0 /\ Len(update.image) = 0 /\ Len(sink) = 0
      BY <1>2, <1>9, <2>2, <2>5
    <3>2. Len(L.whole) = L.header
      BY <2>5 DEF WrittenAs, IsLayout
    <3>3. DestroyOk' <=> update.sound
      <4>1. CASE L.whole[1] = 2
        <5>1. DestroyOk'
          BY <2>3, <4>1 DEF DestroyOk, CrleReader
        <5>2. update.sound
          BY <1>4, <2>1, <3>2, <4>1, WholeIs
        <5> QED
          BY <5>1, <5>2
      <4>2. CASE L.whole[1] = 0
        <5>1. reader'.kind = "none" /\ reader'.left = Len(update.patch) - L.header
          BY <2>3, <4>2 DEF NoneReader
        <5>2. DestroyOk' <=> reader'.left = 0
          BY <5>1 DEF DestroyOk
        <5>3. DestroyOk' <=> Len(update.patch) = Len(L.whole)
          BY <1>4, <3>2, <5>1, <5>2
        <5>4. update.sound <=> Len(update.patch) = Len(L.whole)
          BY <4>2, WholeIs
        <5> QED
          BY <5>3, <5>4
      <4> QED
        BY <2>4, <4>1, <4>2
    <3>4. Reading(L)'
      BY <1>1, <3>1, <3>3 DEF Reading
    <3> QED
      BY <1>1, <1>3, <1>9, <2>1, <3>4, Going
  <2>6. CASE update.image # <<>>
    <3>1. state' = "dfpatch_size"
      <4>1. Len(update.image) > 0
        BY <1>4, <2>6, EmptySeq, WholeIs
      <4> QED
        BY <1>9, <2>2, <4>1
    <3>2. ReaderAt(L, Len(update.patch), reader', L.header, 0) /\ 0 < Len(L.stream)
      BY <2>3, <2>4, <2>6, ReaderBegins
    <3>3. Len(sink') = 0 /\ base_pos' = 0 /\ num' = NoNum
      BY <1>1, <1>2, <1>9
    <3>4. StreamAt(L, state', num', chunk_size', base_pos', Len(sink'), 0)
      BY <3>1, <3>3, Zenon DEF StreamAt
    <3>5. 0 \in 0..(Len(L.stream) - 1)
      BY <3>2, WholeIs
    <3>6. InStream(L, 0)'
      BY <1>1, <2>1, <2>2, <2>6, <3>2, <3>4, <3>5 DEF InStream
    <3>7. Reading(L)'
      BY <3>6 DEF Reading
    <3> QED
      BY <1>1, <1>3, <1>9, <2>1, <3>7, Going
  <2> QED
    BY <2>5, <2>6
<1>10. compression \in {0, 2}
  BY <1>2, WholeIs
<1> QED
  BY <1>5, <1>6, <1>8, <1>9, <1>10, Zenon DEF HeaderSize, header

\* A byte of the head of a run.
LEMMA DecompressHeadStep ==
  ASSUME NEW L, WrittenAs(update, L), At(L), DecompressHead
  PROVE  At(L)'
<1>1. /\ ChunkIsNext /\ SinkIsGood /\ ~failed /\ Reading(L) /\ result = Running /\ Wants > 0
      /\ UNCHANGED <<update, patch_offset, num, chunk_size, to_size, base_pos, sink, failed>>
  BY DEF At, DecompressHead, Needs, Turn, io, header
<1>2. PICK sp : InStream(L, sp)
  <2>1. state \in SizeStates \/ state \in DataStates
    BY <1>1 DEF Wants
  <2> QED
    BY <1>1, <2>1, ReadingIs
<1>3. update.image # <<>> /\ ReaderAt(L, Len(update.patch), reader, Read, sp)
  BY <1>2 DEF InStream
<1>4. /\ ChunkIsNext' /\ UNCHANGED <<state, result>>
      /\ ReaderAt(L, Len(update.patch), reader', Read', sp)
  BY <1>1, <1>3, HeadTaken
<1>5. InStream(L, sp)'
  BY <1>1, <1>2, <1>4 DEF InStream
<1>6. Reading(L)'
  BY <1>5 DEF Reading
<1>7. SinkIsGood'
  BY <1>1, SinkStays
<1> QED
  BY <1>1, <1>4, <1>6, <1>7, Going

\* The end of a patch that is cut short.
LEMMA StarveStep ==
  ASSUME NEW L, WrittenAs(update, L), At(L), Starve
  PROVE  At(L)'
<1>1. /\ ChunkIsNext /\ SinkIsGood /\ Reading(L) /\ Wants > 0
      /\ UNCHANGED <<update, patch_offset, chunk, sink, failed>>
      /\ result' = CorruptPatch \/ result' = NotEnoughData
  BY DEF At, Starve, Needs, Turn, io, Fail
<1>2. PICK sp : InStream(L, sp)
  <2>1. state \in SizeStates \/ state \in DataStates
    BY <1>1 DEF Wants
  <2> QED
    BY <1>1, <2>1, ReadingIs
<1>3. /\ update.image # <<>> /\ ReaderAt(L, Len(update.patch), reader, Read, sp)
      /\ sp \in 0..(Len(L.stream) - 1)
  BY <1>2 DEF InStream
<1>4. Wants \in Nat /\ sp + Wants <= Len(L.stream)
  BY <1>2, StreamWants
<1>5. ~update.sound
  BY <1>1, <1>3, <1>4, StarvedOfIt
<1>6. ChunkIsNext' /\ SinkIsGood'
  BY <1>1, ChunkStays, SinkStays
<1>7. /\ CorruptPatch \in Int /\ CorruptPatch < 0 /\ CorruptPatch # Running
      /\ NotEnoughData \in Int /\ NotEnoughData < 0 /\ NotEnoughData # Running
  BY DEF CorruptPatch, NotEnoughData, Running
<1> QED
  BY <1>1, <1>5, <1>6, <1>7, Failing

\* A byte of a size: what it is, and where the decoder is in the part.
LEMMA SizeByteGiven ==
  ASSUME NEW L, WrittenAs(update, L), At(L), state \in SizeStates, Decompress,
         UNCHANGED <<update, patch_offset>>
  PROVE  /\ ChunkIsNext /\ SinkIsGood /\ ~failed /\ result = Running /\ ChunkIsNext'
         /\ to_size = Len(update.image) /\ update.image # <<>>
         /\ \E sp \in 0..(Len(L.stream) - 1) :
              /\ Data[1] = L.stream[sp + 1]
              /\ StreamAt(L, state, num, chunk_size, base_pos, Len(sink), sp)
              /\ sp + 1 < Len(L.stream) => ReaderAt(L, Len(update.patch), reader', Read', sp + 1)
              /\ sp + 1 = Len(L.stream) => (DestroyOk' <=> update.sound)
<1>1. /\ ChunkIsNext /\ SinkIsGood /\ ~failed /\ Reading(L) /\ result = Running
  BY DEF At, Decompress, Needs, Turn
<1>2. PICK sp : InStream(L, sp)
  BY <1>1, ReadingIs
<1>3. /\ update.image # <<>> /\ ReaderAt(L, Len(update.patch), reader, Read, sp)
      /\ sp \in 0..(Len(L.stream) - 1) /\ to_size = Len(update.image)
      /\ StreamAt(L, state, num, chunk_size, base_pos, Len(sink), sp)
  BY <1>2 DEF InStream
<1>4. Wants = 1 /\ Wants \in Nat /\ sp + Wants <= Len(L.stream)
  BY <1>2, StreamWants
<1>5. /\ Gives \in 1..Wants /\ \A k \in 1..Gives : Data[k] = L.stream[sp + k]
      /\ ChunkIsNext'
      /\ sp + Gives < Len(L.stream) =>
           ReaderAt(L, Len(update.patch), reader', Read', sp + Gives)
      /\ sp + Gives = Len(L.stream) => (DestroyOk' <=> update.sound)
  BY <1>1, <1>3, <1>4, ReaderGives
<1>6. Gives = 1 /\ 1 \in 1..Gives
  BY <1>4, <1>5
<1> QED
  BY <1>1, <1>3, <1>5, <1>6, Zenon

\* What a size of a part is when its last byte is taken.
SizeTaken(p, st, v, bp, t, at) ==
  \/ st = "diff_size" /\ at = p.diff_data /\ bp = p.base /\ t = p.to /\ v = Diff(p)
  \/ /\ st = "extra_size" /\ at = p.extra_data /\ bp = p.base + Diff(p) /\ t = p.to + Diff(p)
     /\ v = Extra(p)
  \/ /\ st = "adjustment" /\ at = p.end /\ bp = p.base + Diff(p) /\ t = p.to + Diff(p) + Extra(p)
     /\ v = p.next - (p.base + Diff(p))

\* A byte of a size in a part: another is to come, or the size is taken.
LEMMA InSize ==
  ASSUME NEW L, WrittenAs(update, L), update.image # <<>>, NEW i \in 1..Len(L.parts), NEW p, p = L.parts[i],
         NEW st \in SizeStates, NEW n, NEW c, NEW bp, NEW t, NEW sp, InPart(L, p, st, n, c, bp, t, sp),
         NEW b, b = L.stream[sp + 1]
  PROVE  /\ ~Overlong(n)
         /\ More(b) => sp + 1 < Len(L.stream) /\ InPart(L, p, st, SizeByte(n, b), c, bp, t, sp + 1)
         /\ ~More(b) => SizeTaken(p, st, Signed(SizeByte(n, b)), bp, t, sp + 1)
<1>1. /\ L.stream \in Seq(Byte) /\ Len(L.stream) \in Nat /\ IsPart(L, update.image, p)
      /\ p.end <= Len(L.stream) /\ p.diff_data <= Len(L.stream) /\ p.extra_data <= Len(L.stream)
      /\ p.end \in Nat /\ p.diff_data \in Nat /\ p.extra_data \in Nat
  <2>1. /\ IsPart(L, update.image, p) /\ IsNumber(L.stream, p.diff_size, p.diff_data)
        /\ IsNumber(L.stream, p.extra_size, p.extra_data) /\ IsNumber(L.stream, p.adjustment, p.end)
    BY PartIs
  <2> QED
    BY <2>1, WholeIs DEF IsNumber
<1>2. /\ IsSize(L.stream, p.diff_size, p.diff_data, Diff(p))
      /\ IsSize(L.stream, p.extra_size, p.extra_data, Extra(p))
      /\ IsSize(L.stream, p.adjustment, p.end, p.next - (p.base + Diff(p)))
  BY <1>1, Zenon DEF IsPart
\* What holds in each of the three.
<1>3. ASSUME NEW place, NEW end, NEW v, IsSize(L.stream, place, end, v), end \in Nat, end <= Len(L.stream),
             HalfRead(L.stream, place, end, n, sp)
      PROVE  /\ ~Overlong(n) /\ sp + 1 <= Len(L.stream)
             /\ More(b) => sp + 1 < Len(L.stream) /\ HalfRead(L.stream, place, end, SizeByte(n, b), sp + 1)
             /\ ~More(b) => sp + 1 = end /\ Signed(SizeByte(n, b)) = v
  <2>1. IsNumber(L.stream, place, end)
    BY <1>3 DEF IsSize
  <2>2. /\ sp \in place..(end - 1) /\ sp + 1 \in 1..Len(L.stream) /\ ~Overlong(n)
        /\ More(b) => HalfRead(L.stream, place, end, SizeByte(n, b), sp + 1)
        /\ ~More(b) => sp + 1 = end /\ SizeByte(n, b) = NumSix(L.stream, place, end - place)
    BY <1>1, <1>3, <2>1, HalfReadByte
  <2>3. Signed(NumSix(L.stream, place, end - place)) = v
    BY <1>1, <1>3, SizeRead
  <2>4. ASSUME More(b)
        PROVE  sp + 1 < Len(L.stream)
    <3>1. sp + 1 \in place..(end - 1)
      <4>1. \A a : HalfRead(L.stream, place, end, SizeByte(n, b), a) => a \in place..(end - 1)
        <5>1. place \in Nat
          BY <2>1 DEF IsNumber
        <5>2. \A m \in Nat : \A k \in 0..(end - m - 1) : m + k \in m..(end - 1)
          BY <1>3
        <5> QED
          BY <5>1, <5>2, Zenon DEF HalfRead
      <4> QED
        BY <2>2, <2>4, <4>1
    <3>2. place \in Nat
      BY <2>1 DEF IsNumber
    <3> QED
      BY <1>1, <1>3, <3>1, <3>2
  <2>5. sp + 1 <= Len(L.stream)
    BY <1>1, <2>2
  <2> QED
    BY <2>2, <2>3, <2>4, <2>5, Zenon
<1>4. CASE st = "diff_size" /\ HalfRead(L.stream, p.diff_size, p.diff_data, n, sp) /\ bp = p.base /\ t = p.to
  <2>1. /\ ~Overlong(n) /\ sp + 1 <= Len(L.stream)
        /\ More(b) => /\ sp + 1 < Len(L.stream)
                       /\ HalfRead(L.stream, p.diff_size, p.diff_data, SizeByte(n, b), sp + 1)
        /\ ~More(b) => sp + 1 = p.diff_data /\ Signed(SizeByte(n, b)) = Diff(p)
    BY <1>1, <1>2, <1>3, <1>4, Zenon
  <2>2. st # "extra_size" /\ st # "adjustment"
    BY <1>4
  <2> QED
    BY <1>4, <2>1, <2>2, Zenon DEF InPart, SizeTaken
<1>5. CASE /\ st = "extra_size" /\ HalfRead(L.stream, p.extra_size, p.extra_data, n, sp)
           /\ bp = p.base + Diff(p) /\ t = p.to + Diff(p)
  <2>1. /\ ~Overlong(n) /\ sp + 1 <= Len(L.stream)
        /\ More(b) => /\ sp + 1 < Len(L.stream)
                       /\ HalfRead(L.stream, p.extra_size, p.extra_data, SizeByte(n, b), sp + 1)
        /\ ~More(b) => sp + 1 = p.extra_data /\ Signed(SizeByte(n, b)) = Extra(p)
    BY <1>1, <1>2, <1>3, <1>5, Zenon
  <2>2. st # "diff_size" /\ st # "adjustment"
    BY <1>5
  <2> QED
    BY <1>5, <2>1, <2>2, Zenon DEF InPart, SizeTaken
<1>6. CASE /\ st = "adjustment" /\ HalfRead(L.stream, p.adjustment, p.end, n, sp)
           /\ bp = p.base + Diff(p) /\ t = p.to + Diff(p) + Extra(p)
  <2>1. /\ ~Overlong(n) /\ sp + 1 <= Len(L.stream)
        /\ More(b) => /\ sp + 1 < Len(L.stream)
                       /\ HalfRead(L.stream, p.adjustment, p.end, SizeByte(n, b), sp + 1)
        /\ ~More(b) => sp + 1 = p.end /\ Signed(SizeByte(n, b)) = p.next - (p.base + Diff(p))
    BY <1>1, <1>2, <1>3, <1>6, Zenon
  <2>2. st # "diff_size" /\ st # "extra_size"
    BY <1>6
  <2> QED
    BY <1>6, <2>1, <2>2, Zenon DEF InPart, SizeTaken
<1>7. st # "diff_data" /\ st # "extra_data"
  BY DEF SizeStates
<1> QED
  BY <1>4, <1>5, <1>6, <1>7, Zenon DEF InPart

\* The byte is that of the empty dfpatch, or one of a size of a part.
LEMMA SizeIs ==
  ASSUME NEW L, WrittenAs(update, L), At(L), state \in SizeStates, Decompress,
         UNCHANGED <<update, patch_offset>>
  PROVE  /\ ~Overlong(num)
         /\ \E sp \in 0..(Len(L.stream) - 1) :
              /\ Data[1] = L.stream[sp + 1]
              /\ \/ state = "dfpatch_size" /\ num = NoNum /\ base_pos = 0 /\ Len(sink) = 0 /\ sp = 0
                    /\ Data[1] = 0 /\ sp + 1 < Len(L.stream)
                 \/ \E i \in 1..Len(L.parts) :
                      InPart(L, L.parts[i], state, num, chunk_size, base_pos, Len(sink), sp)
              /\ sp + 1 < Len(L.stream) => ReaderAt(L, Len(update.patch), reader', Read', sp + 1)
              /\ sp + 1 = Len(L.stream) => (DestroyOk' <=> update.sound)
<1>1. /\ update.image # <<>>
      /\ \E sp \in 0..(Len(L.stream) - 1) :
           /\ Data[1] = L.stream[sp + 1]
           /\ StreamAt(L, state, num, chunk_size, base_pos, Len(sink), sp)
           /\ sp + 1 < Len(L.stream) => ReaderAt(L, Len(update.patch), reader', Read', sp + 1)
           /\ sp + 1 = Len(L.stream) => (DestroyOk' <=> update.sound)
  BY SizeByteGiven
<1>2. PICK sp \in 0..(Len(L.stream) - 1) :
           /\ Data[1] = L.stream[sp + 1]
           /\ StreamAt(L, state, num, chunk_size, base_pos, Len(sink), sp)
           /\ sp + 1 < Len(L.stream) => ReaderAt(L, Len(update.patch), reader', Read', sp + 1)
           /\ sp + 1 = Len(L.stream) => (DestroyOk' <=> update.sound)
  BY <1>1
<1>3. CASE state = "dfpatch_size" /\ num = NoNum /\ base_pos = 0 /\ Len(sink) = 0 /\ sp = 0
  <2>1. ~Overlong(num)
    BY <1>3 DEF Overlong, NoNum
  <2>2. 1 < Len(L.stream) /\ L.stream[1] = 0
    BY <1>1, ReaderBegins
  <2>3. sp + 1 < Len(L.stream) /\ Data[1] = 0
    BY <1>2, <1>3, <2>2
  <2> QED
    BY <1>2, <1>3, <2>1, <2>3, Zenon
<1>4. ASSUME NEW i \in 1..Len(L.parts),
             InPart(L, L.parts[i], state, num, chunk_size, base_pos, Len(sink), sp)
      PROVE  ~Overlong(num)
  BY <1>1, <1>4, InSize
<1> QED
  BY <1>2, <1>3, <1>4, Zenon DEF StreamAt

\* No size of such a patch is too long.
LEMMA UnpackTooMuchStep ==
  ASSUME NEW L, WrittenAs(update, L), At(L), UnpackTooMuch
  PROVE  FALSE
BY SizeIs DEF UnpackTooMuch, io

\* The decoder is in the stream after a step.
LEMMA InStreamNow ==
  ASSUME NEW L, ChunkIsNext', SinkIsGood', result' = Running, ~failed',
         UNCHANGED <<update, to_size>>, to_size = Len(update.image), update.image # <<>>,
         NEW sp \in 0..(Len(L.stream) - 1),
         ReaderAt(L, Len(update.patch), reader', Read', sp),
         StreamAt(L, state', num', chunk_size', base_pos', Len(sink'), sp)
  PROVE  At(L)'
<1>1. InStream(L, sp)'
  BY DEF InStream
<1>2. Reading(L)'
  BY <1>1 DEF Reading
<1> QED
  BY <1>2, Going

\* A byte of a size, another to come.
LEMMA UnpackMoreStep ==
  ASSUME NEW L, WrittenAs(update, L), At(L), UnpackMore
  PROVE  At(L)'
<1>1. /\ state \in SizeStates /\ Decompress /\ More(Data[1]) /\ num' = SizeByte(num, Data[1])
      /\ UNCHANGED <<update, patch_offset, state, chunk_size, result, base_pos, sink, failed, to_size>>
  BY DEF UnpackMore, io, header
<1>2. /\ SinkIsGood /\ ~failed /\ result = Running /\ ChunkIsNext'
      /\ to_size = Len(update.image) /\ update.image # <<>>
  BY <1>1, SizeByteGiven
<1>3. PICK sp \in 0..(Len(L.stream) - 1) :
        /\ Data[1] = L.stream[sp + 1]
        /\ \/ Data[1] = 0
           \/ \E i \in 1..Len(L.parts) :
                InPart(L, L.parts[i], state, num, chunk_size, base_pos, Len(sink), sp)
        /\ sp + 1 < Len(L.stream) => ReaderAt(L, Len(update.patch), reader', Read', sp + 1)
  BY <1>1, SizeIs
<1>4. ~More(0)
  BY DEF More
<1>5. PICK i \in 1..Len(L.parts) :
        InPart(L, L.parts[i], state, num, chunk_size, base_pos, Len(sink), sp)
  BY <1>1, <1>3, <1>4
<1>6. /\ sp + 1 < Len(L.stream)
      /\ InPart(L, L.parts[i], state, SizeByte(num, Data[1]), chunk_size, base_pos, Len(sink), sp + 1)
  BY <1>1, <1>2, <1>3, <1>5, InSize
<1>7. StreamAt(L, state', num', chunk_size', base_pos', Len(sink'), sp + 1)
  BY <1>1, <1>5, <1>6 DEF StreamAt
<1>8. sp + 1 \in 0..(Len(L.stream) - 1) /\ SinkIsGood'
  BY <1>1, <1>2, <1>6, WholeIs, SinkStays
<1> QED
  BY <1>1, <1>2, <1>3, <1>6, <1>7, <1>8, InStreamNow

\* The last byte of a size.
LEMMA UnpackIs ==
  ASSUME NEW s, Unpack(s)
  PROVE  state = s /\ Decompress /\ ~More(Data[1]) /\ num' = NoNum
BY DEF Unpack

\* The size of the dfpatch, which is none.
LEMMA DfpatchSizeStep ==
  ASSUME NEW L, WrittenAs(update, L), At(L), DfpatchSize
  PROVE  At(L)'
<1>1. /\ state = "dfpatch_size" /\ Decompress /\ num' = NoNum
      /\ IF Unpacked > 0 THEN Refuse(NotImplemented) ELSE Goes("diff_size")
      /\ UNCHANGED <<update, patch_offset, chunk_size, base_pos, sink, failed, to_size>>
  BY UnpackIs DEF DfpatchSize, io, header
<1>2. state \in SizeStates
  BY <1>1 DEF SizeStates
<1>3. /\ SinkIsGood /\ ~failed /\ result = Running /\ ChunkIsNext'
      /\ to_size = Len(update.image) /\ update.image # <<>>
  BY <1>1, <1>2, SizeByteGiven
<1>4. \A i, c, n, bp, t, sp : ~InPart(L, L.parts[i], "dfpatch_size", n, c, bp, t, sp)
  BY SMT DEF InPart
<1>5. /\ num = NoNum /\ base_pos = 0 /\ Len(sink) = 0 /\ Data[1] = 0
      /\ 1 < Len(L.stream) /\ ReaderAt(L, Len(update.patch), reader', Read', 1)
  <2>1. PICK sp \in 0..(Len(L.stream) - 1) :
          /\ num = NoNum /\ base_pos = 0 /\ Len(sink) = 0 /\ sp = 0
          /\ Data[1] = 0 /\ sp + 1 < Len(L.stream)
          /\ ReaderAt(L, Len(update.patch), reader', Read', sp + 1)
    BY <1>1, <1>2, <1>4, SizeIs
  <2>2. sp + 1 = 1
    BY <2>1
  <2> QED
    BY <2>1, <2>2
<1>6. Unpacked = 0
  <2>1. SizeByte(NoNum, 0) = [bits |-> 6, value |-> 0 % 64, negative |-> (0 \div 64) % 2 = 1]
    <3>1. NoNum.bits = 0
      BY DEF NoNum
    <3> QED
      BY <3>1, Zenon DEF SizeByte
  <2>2. 0 % 64 = 0
    BY SMT
  <2>3. SizeByte(NoNum, 0).value = 0
    BY <2>1, <2>2
  <2>4. Signed(SizeByte(NoNum, 0)) = 0
    BY <2>3 DEF Signed
  <2> QED
    BY <1>5, <2>4 DEF Unpacked
<1>7. state' = "diff_size" /\ result' = result
  BY <1>1, <1>6 DEF Goes
<1>8. StreamAt(L, state', num', chunk_size', base_pos', Len(sink'), 1)
  <2>1. PICK i \in 1..Len(L.parts) : InPart(L, L.parts[i], "diff_size", NoNum, 0, 0, 0, 1)
    <3>1. StreamAt(L, "diff_size", NoNum, 0, 0, 0, 1)
      BY <1>3, ReaderBegins
    <3> QED
      BY <3>1 DEF StreamAt
  <2>2. InPart(L, L.parts[i], "diff_size", NoNum, chunk_size, 0, 0, 1)
    BY <2>1 DEF InPart
  <2> QED
    BY <1>1, <1>5, <1>7, <2>2 DEF StreamAt
<1>9. 1 \in 0..(Len(L.stream) - 1) /\ SinkIsGood'
  BY <1>1, <1>3, <1>5, WholeIs, SinkStays
<1> QED
  BY <1>1, <1>3, <1>5, <1>7, <1>8, <1>9, InStreamNow

\* The lengths of a part, and the data, are within the image and the stream.
LEMMA PartWithin ==
  ASSUME NEW L, WrittenAs(update, L), update.image # <<>>,
         NEW i \in 1..Len(L.parts), NEW p, p = L.parts[i]
  PROVE  /\ p.to + Diff(p) <= Len(update.image)
         /\ p.diff_data < Len(L.stream) /\ p.diff_data \in p.diff_data..p.extra_size
         /\ p.extra_size \in 0..(Len(L.stream) - 1)
         /\ p.extra_data < Len(L.stream) /\ p.extra_data \in p.extra_data..p.adjustment
         /\ p.adjustment \in 0..(Len(L.stream) - 1)
<1>1. /\ p.diff_size \in Nat /\ p.diff_data \in Nat /\ p.extra_size \in Nat /\ p.extra_data \in Nat
      /\ p.adjustment \in Nat /\ p.end \in Nat /\ p.to \in Nat /\ Diff(p) \in Nat /\ Extra(p) \in Nat
      /\ p.diff_size < p.diff_data /\ p.diff_data <= p.extra_size /\ p.extra_size < p.extra_data
      /\ p.extra_data <= p.adjustment /\ p.adjustment < p.end /\ p.end <= Len(L.stream)
      /\ p.to + Diff(p) + Extra(p) <= Len(update.image) /\ Len(L.stream) \in Nat /\ Len(update.image) \in Nat
  BY PartIs, WholeIs, LenProperties
<1>2. PICK a \in Nat, b \in Nat, c \in Nat, d \in Nat, e \in Nat, n \in Nat :
        /\ p.diff_data = a /\ p.extra_size = b /\ p.extra_data = c /\ p.adjustment = d /\ p.end = e
        /\ Len(L.stream) = n
  BY <1>1, Zenon
<1>3. a <= b /\ b < c /\ c <= d /\ d < e /\ e <= n
  BY <1>1, <1>2, Zenon
<1>4. a < n /\ a \in a..b /\ b \in 0..(n - 1) /\ c < n /\ c \in c..d /\ d \in 0..(n - 1)
  BY <1>3
<1>5. p.to + Diff(p) <= Len(update.image)
  <2>1. \A x, y, z, w \in Nat : x + y + z <= w => x + y <= w
    OBVIOUS
  <2> QED
    BY <1>1, <2>1, Zenon
<1> QED
  BY <1>2, <1>4, <1>5

\* The size of the data of a part, which fits the image.
LEMMA DataSizeStep ==
  ASSUME NEW L, WrittenAs(update, L), At(L), DataSize
  PROVE  At(L)'
<1>1. /\ state = "diff_size" \/ state = "extra_size"
      /\ Decompress /\ ~More(Data[1]) /\ num' = NoNum
      /\ IF Len(sink) + Unpacked > to_size THEN Refuse(CorruptPatch) /\ UNCHANGED chunk_size
         ELSE /\ chunk_size' = Unpacked
              /\ Goes(IF state = "diff_size" THEN "diff_data" ELSE "extra_data")
      /\ UNCHANGED <<update, patch_offset, base_pos, sink, failed, to_size>>
  BY UnpackIs DEF DataSize, io, header
<1>2. state \in SizeStates /\ state # "dfpatch_size" /\ state # "adjustment"
  BY <1>1 DEF SizeStates
<1>3. /\ SinkIsGood /\ ~failed /\ result = Running /\ ChunkIsNext'
      /\ to_size = Len(update.image) /\ update.image # <<>>
  BY <1>1, <1>2, SizeByteGiven
<1>4. PICK sp \in 0..(Len(L.stream) - 1) :
        /\ Data[1] = L.stream[sp + 1]
        /\ \E i \in 1..Len(L.parts) :
             InPart(L, L.parts[i], state, num, chunk_size, base_pos, Len(sink), sp)
        /\ sp + 1 < Len(L.stream) => ReaderAt(L, Len(update.patch), reader', Read', sp + 1)
  BY <1>1, <1>2, SizeIs
<1>5. PICK i \in 1..Len(L.parts) :
        InPart(L, L.parts[i], state, num, chunk_size, base_pos, Len(sink), sp)
  BY <1>4
<1> DEFINE p == L.parts[i]
<1>6. \/ /\ state = "diff_size" /\ sp + 1 = p.diff_data /\ base_pos = p.base /\ Len(sink) = p.to
         /\ Unpacked = Diff(p)
      \/ /\ state = "extra_size" /\ sp + 1 = p.extra_data
         /\ base_pos = p.base + Diff(p) /\ Len(sink) = p.to + Diff(p)
         /\ Unpacked = Extra(p)
  <2>1. ~More(Data[1]) /\ Unpacked = Signed(SizeByte(num, Data[1])) /\ Data[1] = L.stream[sp + 1]
    BY <1>1, <1>4, Zenon DEF Unpacked
  <2>2. SizeTaken(p, state, Unpacked, base_pos, Len(sink), sp + 1)
    BY <1>2, <1>3, <1>5, <2>1, InSize
  <2> HIDE DEF p
  <2> QED
    BY <1>2, <2>2, Zenon DEF SizeTaken
<1>7. /\ p.to + Diff(p) <= Len(update.image) /\ p.to + Diff(p) + Extra(p) <= Len(update.image)
      /\ p.diff_data < Len(L.stream) /\ p.diff_data \in p.diff_data..p.extra_size
      /\ p.extra_data < Len(L.stream) /\ p.extra_data \in p.extra_data..p.adjustment
      /\ p.diff_data \in Nat /\ p.extra_data \in Nat /\ p.base \in Nat /\ p.to \in Nat
      /\ Diff(p) \in Nat /\ Extra(p) \in Nat /\ Len(L.stream) \in Nat /\ Len(update.image) \in Nat
  BY <1>3, PartIs, PartWithin, WholeIs, LenProperties
<1> HIDE DEF p
<1>8. ~(Len(sink) + Unpacked > to_size)
  <2>1. Len(sink) + Unpacked = p.to + Diff(p) \/ Len(sink) + Unpacked = p.to + Diff(p) + Extra(p)
    BY <1>6, Zenon
  <2>2. to_size = Len(update.image)
    BY <1>3
  <2>3. \A x, y \in Nat : x <= y => ~(x > y)
    OBVIOUS
  <2>4. /\ ~(p.to + Diff(p) > Len(update.image))
        /\ ~(p.to + Diff(p) + Extra(p) > Len(update.image))
    <3>1. \A x, y \in Nat : x + y \in Nat
      OBVIOUS
    <3>2. p.to + Diff(p) \in Nat /\ p.to + Diff(p) + Extra(p) \in Nat
      BY <1>7, <3>1, Zenon
    <3> QED
      BY <1>7, <2>3, <3>2, Zenon
  <2> QED
    BY <2>1, <2>2, <2>4, Zenon
<1>9. chunk_size' = Unpacked /\ result' = result
      /\ state' = (IF state = "diff_size" THEN "diff_data" ELSE "extra_data")
  BY <1>1, <1>8 DEF Goes
<1>10. sp + 1 \in 0..(Len(L.stream) - 1) /\ sp + 1 < Len(L.stream)
  BY <1>6, <1>7
<1>11. InPart(L, p, state', num', chunk_size', base_pos', Len(sink'), sp + 1)
  <2>1. CASE /\ state = "diff_size" /\ sp + 1 = p.diff_data /\ base_pos = p.base /\ Len(sink) = p.to
             /\ Unpacked = Diff(p)
    <3>1. /\ state' = "diff_data" /\ chunk_size' = p.extra_size - (sp + 1)
          /\ sp + 1 \in p.diff_data..p.extra_size
          /\ base_pos' = p.base + ((sp + 1) - p.diff_data) /\ Len(sink') = p.to + ((sp + 1) - p.diff_data)
      <4>1. chunk_size' = p.extra_size - (sp + 1)
        BY <1>9, <2>1, Zenon DEF Diff
      <4>2. base_pos' = p.base /\ Len(sink') = p.to /\ (sp + 1) - p.diff_data = 0
        BY <1>1, <1>7, <2>1
      <4>3. base_pos' = p.base + ((sp + 1) - p.diff_data) /\ Len(sink') = p.to + ((sp + 1) - p.diff_data)
        <5>1. \A a \in Nat : a + 0 = a
          OBVIOUS
        <5> QED
          BY <1>7, <4>2, <5>1, Zenon
      <4>4. state' = "diff_data"
        BY <1>9, <2>1
      <4> QED
        BY <1>7, <2>1, <4>1, <4>3, <4>4, Zenon
    <3> QED
      BY <1>1, <3>1, Zenon DEF InPart
  <2>2. CASE /\ state = "extra_size" /\ sp + 1 = p.extra_data
             /\ base_pos = p.base + Diff(p) /\ Len(sink) = p.to + Diff(p)
             /\ Unpacked = Extra(p)
    <3>1. /\ state' = "extra_data" /\ chunk_size' = p.adjustment - (sp + 1)
          /\ sp + 1 \in p.extra_data..p.adjustment
          /\ base_pos' = p.base + Diff(p) /\ Len(sink') = p.to + Diff(p) + ((sp + 1) - p.extra_data)
      <4>1. chunk_size' = p.adjustment - (sp + 1)
        BY <1>9, <2>2 DEF Extra
      <4> QED
        BY <1>1, <1>7, <1>9, <2>2, <4>1
    <3> QED
      BY <1>1, <3>1, Zenon DEF InPart
  <2> QED
    BY <1>6, <2>1, <2>2
<1>12. StreamAt(L, state', num', chunk_size', base_pos', Len(sink'), sp + 1)
  BY <1>11 DEF StreamAt, p
<1>13. SinkIsGood'
  BY <1>1, <1>3, SinkStays
<1> QED
  BY <1>1, <1>3, <1>4, <1>9, <1>10, <1>12, <1>13, InStreamNow

\* The adjustment that ends a part: the next part begins, or the image is complete.
LEMMA AdjustmentStep ==
  ASSUME NEW L, WrittenAs(update, L), At(L), Adjustment
  PROVE  At(L)'
<1>1. /\ state = "adjustment" /\ Decompress /\ ~More(Data[1]) /\ num' = NoNum
      /\ IF NextPos < 0 THEN Refuse(IoFailed) /\ UNCHANGED base_pos
         ELSE base_pos' = NextPos /\ Goes(IF Len(sink) = to_size THEN "done" ELSE "diff_size")
      /\ UNCHANGED <<update, patch_offset, chunk_size, sink, failed, to_size>>
  BY UnpackIs DEF Adjustment, header
<1>2. state \in SizeStates /\ state # "dfpatch_size"
  BY <1>1 DEF SizeStates
<1>3. /\ SinkIsGood /\ ~failed /\ result = Running /\ ChunkIsNext'
      /\ to_size = Len(update.image) /\ update.image # <<>>
  BY <1>1, <1>2, SizeByteGiven
<1>4. PICK sp \in 0..(Len(L.stream) - 1) :
        /\ Data[1] = L.stream[sp + 1]
        /\ \E i \in 1..Len(L.parts) :
             InPart(L, L.parts[i], state, num, chunk_size, base_pos, Len(sink), sp)
        /\ sp + 1 < Len(L.stream) => ReaderAt(L, Len(update.patch), reader', Read', sp + 1)
        /\ sp + 1 = Len(L.stream) => (DestroyOk' <=> update.sound)
  BY <1>1, <1>2, SizeIs
<1>5. PICK i \in 1..Len(L.parts) :
        InPart(L, L.parts[i], state, num, chunk_size, base_pos, Len(sink), sp)
  BY <1>4
<1> DEFINE p == L.parts[i]
<1>6. /\ sp + 1 = p.end /\ base_pos = p.base + Diff(p) /\ Len(sink) = p.to + Diff(p) + Extra(p)
      /\ Unpacked = p.next - (p.base + Diff(p))
  <2>1. ~More(Data[1]) /\ Unpacked = Signed(SizeByte(num, Data[1])) /\ Data[1] = L.stream[sp + 1]
    BY <1>1, <1>4, Zenon DEF Unpacked
  <2>2. SizeTaken(p, state, Unpacked, base_pos, Len(sink), sp + 1)
    BY <1>1, <1>2, <1>3, <1>5, <2>1, InSize
  <2>3. state # "diff_size" /\ state # "extra_size"
    BY <1>1
  <2> HIDE DEF p
  <2> QED
    BY <2>2, <2>3, Zenon DEF SizeTaken
<1>7. /\ p.base \in Nat /\ p.next \in Nat /\ Diff(p) \in Nat /\ Len(L.stream) \in Nat
      /\ p.to + Diff(p) + Extra(p) = Len(update.image) <=> p.end = Len(L.stream)
      /\ p.end < Len(L.stream) =>
           \A c : StreamAt(L, "diff_size", NoNum, c, p.next, p.to + Diff(p) + Extra(p), p.end)
  BY <1>3, PartIs, WholeIs
<1> HIDE DEF p
<1>8. NextPos = p.next
  BY <1>6, <1>7 DEF NextPos
<1>9. base_pos' = p.next /\ result' = result
      /\ state' = (IF Len(sink) = to_size THEN "done" ELSE "diff_size")
  BY <1>1, <1>7, <1>8 DEF Goes
<1>10. SinkIsGood'
  BY <1>1, <1>3, SinkStays
<1>11. CASE sp + 1 = Len(L.stream)
  <2>1. Len(sink) = Len(update.image) /\ state' = "done"
    BY <1>3, <1>6, <1>7, <1>9, <1>11
  <2>2. DestroyOk' <=> update.sound
    BY <1>4, <1>11
  <2>3. Reading(L)'
    BY <1>1, <1>3, <2>1, <2>2 DEF Reading
  <2> QED
    BY <1>1, <1>3, <1>9, <1>10, <2>3, Going
<1>12. CASE sp + 1 # Len(L.stream)
  <2>1. sp + 1 < Len(L.stream) /\ sp + 1 \in 0..(Len(L.stream) - 1)
    BY <1>7, <1>12
  <2>2. Len(sink) # to_size /\ state' = "diff_size"
    BY <1>3, <1>6, <1>7, <1>9, <1>12
  <2>3. StreamAt(L, state', num', chunk_size', base_pos', Len(sink'), sp + 1)
    BY <1>1, <1>6, <1>7, <1>9, <2>1, <2>2
  <2> QED
    BY <1>1, <1>3, <1>4, <1>9, <1>10, <2>1, <2>3, InStreamNow
<1> QED
  BY <1>11, <1>12

\* The end of the data of a part.
LEMMA EndDataStep ==
  ASSUME NEW L, WrittenAs(update, L), At(L), EndData
  PROVE  At(L)'
<1>1. /\ ChunkIsNext /\ SinkIsGood /\ ~failed /\ result = Running /\ Reading(L)
      /\ state \in DataStates /\ chunk_size = 0 /\ result' = result
      /\ state' = (IF state = "diff_data" THEN "extra_size" ELSE "adjustment")
      /\ UNCHANGED <<update, patch_offset, chunk, reader, num, chunk_size, base_pos, sink, failed, to_size>>
  BY DEF At, EndData, Turn, Goes, io, header
<1>2. PICK sp : InStream(L, sp)
  BY <1>1, ReadingIs
<1>3. /\ to_size = Len(update.image) /\ update.image # <<>> /\ sp \in 0..(Len(L.stream) - 1)
      /\ ReaderAt(L, Len(update.patch), reader, Read, sp)
      /\ StreamAt(L, state, num, chunk_size, base_pos, Len(sink), sp)
  BY <1>2 DEF InStream
<1>4. state \in {"diff_data", "extra_data"}
  BY <1>1 DEF DataStates
<1>5. PICK i \in 1..Len(L.parts) : InPart(L, L.parts[i], state, num, chunk_size, base_pos, Len(sink), sp)
  BY <1>3, <1>4 DEF StreamAt
<1> DEFINE p == L.parts[i]
<1>6. /\ p.diff_data \in Nat /\ p.extra_size \in Nat /\ p.extra_data \in Nat /\ p.adjustment \in Nat
      /\ p.base \in Nat /\ p.to \in Nat /\ Diff(p) \in Nat
      /\ IsNumber(L.stream, p.extra_size, p.extra_data) /\ IsNumber(L.stream, p.adjustment, p.end)
  BY <1>3, PartIs
<1>7. InPart(L, p, state', num', chunk_size', base_pos', Len(sink'), sp)
  <2>1. CASE state = "diff_data"
    <3>1. /\ num = NoNum /\ sp \in p.diff_data..p.extra_size /\ chunk_size = p.extra_size - sp
          /\ base_pos = p.base + (sp - p.diff_data) /\ Len(sink) = p.to + (sp - p.diff_data)
      BY <1>5, <2>1, SMT DEF InPart
    <3> HIDE DEF p
    <3>2. sp = p.extra_size
      BY <1>1, <1>3, <1>6, <3>1
    <3>3. base_pos = p.base + Diff(p) /\ Len(sink) = p.to + Diff(p)
      BY <3>1, <3>2, Zenon DEF Diff
    <3>4. HalfRead(L.stream, p.extra_size, p.extra_data, num, sp)
      BY <1>6, <3>1, <3>2, NothingRead
    <3>5. state' = "extra_size"
      BY <1>1, <2>1
    <3> QED
      BY <1>1, <3>3, <3>4, <3>5, Zenon DEF InPart
  <2>2. CASE state = "extra_data"
    <3>1. /\ num = NoNum /\ sp \in p.extra_data..p.adjustment /\ chunk_size = p.adjustment - sp
          /\ base_pos = p.base + Diff(p) /\ Len(sink) = p.to + Diff(p) + (sp - p.extra_data)
      BY <1>5, <2>2, SMT DEF InPart
    <3> HIDE DEF p
    <3>2. sp = p.adjustment
      BY <1>1, <1>3, <1>6, <3>1
    <3>3. Len(sink) = p.to + Diff(p) + Extra(p)
      BY <3>1, <3>2, Zenon DEF Extra
    <3>4. HalfRead(L.stream, p.adjustment, p.end, num, sp)
      BY <1>6, <3>1, <3>2, NothingRead
    <3>5. state' = "adjustment"
      BY <1>1, <2>2
    <3> QED
      BY <1>1, <3>1, <3>3, <3>4, <3>5, Zenon DEF InPart
  <2> QED
    BY <1>4, <2>1, <2>2
<1> HIDE DEF p
<1>8. StreamAt(L, state', num', chunk_size', base_pos', Len(sink'), sp)
  BY <1>7 DEF StreamAt, p
<1>9. ChunkIsNext' /\ Read' = Read /\ SinkIsGood'
  BY <1>1, ChunkStays, SinkStays
<1>10. ReaderAt(L, Len(update.patch), reader', Read', sp)
  BY <1>1, <1>3, <1>9
<1> QED
  BY <1>1, <1>3, <1>8, <1>9, <1>10, InStreamNow

\* A piece of g bytes is what comes next in the image, and the decoder is behind it.
PieceFits(L, p, sp, g) ==
  /\ Piece \in Seq(Byte) /\ Len(Piece) = g
  /\ Len(sink) + g <= Len(update.image)
  /\ \A k \in 1..g : Piece[k] = update.image[Len(sink) + k]
  /\ sp + g < Len(L.stream)
  /\ InPart(L, p, state, num, chunk_size - g, IF state = "diff_data" THEN base_pos + g ELSE base_pos,
            Len(sink) + g, sp + g)

\* Every piece fits.
LEMMA PieceIs ==
  ASSUME NEW L, WrittenAs(update, L), update.image # <<>>, NEW i \in 1..Len(L.parts), NEW p, p = L.parts[i],
         state \in DataStates, NEW sp \in Nat, Len(sink) \in Nat,
         InPart(L, p, state, num, chunk_size, base_pos, Len(sink), sp),
         NEW g \in Nat, g = Gives, g >= 1, g <= chunk_size,
         Data \in Seq(Byte), Len(Data) = g, \A k \in 1..g : Data[k] = L.stream[sp + k]
  PROVE  PieceFits(L, p, sp, g)
<1>1. state = "diff_data" \/ state = "extra_data"
  BY DEF DataStates
<1>2. /\ p.diff_data \in Nat /\ p.extra_size \in Nat /\ p.extra_data \in Nat /\ p.adjustment \in Nat
      /\ p.base \in Nat /\ p.to \in Nat /\ Diff(p) \in Nat /\ Extra(p) \in Nat
      /\ p.extra_size \in 0..(Len(L.stream) - 1) /\ p.adjustment \in 0..(Len(L.stream) - 1)
      /\ p.to + Diff(p) <= Len(update.image) /\ p.to + Diff(p) + Extra(p) <= Len(update.image)
      /\ IsPart(L, update.image, p) /\ Len(update.image) \in Nat /\ Len(L.stream) \in Nat
  BY PartIs, PartWithin, WholeIs, LenProperties
<1>3. PICK t \in Nat, n \in Nat, w \in Nat, base \in Nat, to \in Nat, d \in Nat, e \in Nat :
        /\ Len(sink) = t /\ Len(update.image) = n /\ Len(L.stream) = w /\ p.base = base /\ p.to = to
        /\ Diff(p) = d /\ Extra(p) = e
  <2>1. /\ Len(sink) \in Nat /\ Len(update.image) \in Nat /\ Len(L.stream) \in Nat /\ p.base \in Nat
        /\ p.to \in Nat /\ Diff(p) \in Nat /\ Extra(p) \in Nat
    BY <1>2, Zenon
  <2> QED
    BY <2>1, Zenon
<1>4. ASSUME \A k \in 1..g : Piece[k] = update.image[t + k], t + g <= n,
             Piece = [k \in 1..g |-> Piece[k]]
      PROVE  Piece \in Seq(Byte) /\ Len(Piece) = g
  <2>1. ASSUME NEW k \in 1..g
        PROVE  Piece[k] \in Byte
    <3>1. t + k \in 1..n
      <4>1. t + g <= n
        BY <1>4, Zenon
      <4> QED
        BY <4>1
    <3>2. t + k \in 1..Len(update.image)
      BY <1>3, <3>1, Zenon
    <3>3. update.image[t + k] \in Byte
      BY <3>2, ElementOfSeq, WholeIs, Zenon
    <3> QED
      BY <1>4, <3>3, Zenon
  <2>2. Piece \in [1..g -> Byte]
    BY <1>4, <2>1
  <2> QED
    BY <2>2, SeqDef
<1>5. CASE state = "diff_data"
  <2>1. PICK a \in Nat, b \in Nat : p.diff_data = a /\ p.extra_size = b
    BY <1>2
  <2>2. /\ num = NoNum /\ sp \in a..b /\ chunk_size = b - sp
        /\ base_pos = base + (sp - a) /\ t = to + (sp - a) /\ d = b - a /\ b < w /\ to + d <= n
    <3>1. /\ num = NoNum /\ sp \in p.diff_data..p.extra_size /\ chunk_size = p.extra_size - sp
          /\ base_pos = p.base + (sp - p.diff_data) /\ Len(sink) = p.to + (sp - p.diff_data)
      BY <1>5, SMT DEF InPart
    <3>2. d = b - a /\ b < w /\ to + d <= n
      <4>1. d = b - a
        BY <1>3, <2>1, Zenon DEF Diff
      <4>2. b \in 0..(w - 1) /\ to + d <= n
        BY <1>2, <1>3, <2>1, Zenon
      <4> QED
        BY <4>1, <4>2
    <3>3. num = NoNum /\ sp \in a..b /\ chunk_size = b - sp
      BY <2>1, <3>1, Zenon
    <3>4. base_pos = base + (sp - a)
      BY <1>3, <2>1, <3>1, Zenon
    <3>5. t = to + (sp - a)
      BY <1>3, <2>1, <3>1, Zenon
    <3> QED
      BY <3>2, <3>3, <3>4, <3>5, Zenon
  <2>3. sp + g <= b /\ sp + g < w /\ t + g <= n
    <3>1. sp + g <= b /\ sp + g < w
      BY <2>2
    <3>2. t = to + (sp - a) /\ sp - a \in 0..d /\ (sp - a) + g <= d
      BY <2>2
    <3>3. \A x \in Int : x \in 0..d /\ x + g <= d /\ t = to + x => t + g <= to + d
      OBVIOUS
    <3>4. t + g <= to + d
      BY <3>2, <3>3
    <3> QED
      BY <2>2, <3>1, <3>4
  <2>4. Piece = [k \in 1..g |-> (Data[k] + Base[base_pos + k]) % 256]
    <3>1. state # "extra_data"
      BY <1>5
    <3> QED
      BY <3>1, Zenon DEF Piece
  <2>5. ASSUME NEW k \in 1..g
        PROVE  Piece[k] = update.image[t + k]
    <3>1. Piece[k] = (L.stream[sp + k] + Base[base_pos + k]) % 256
      <4>1. Piece[k] = (Data[k] + Base[base_pos + k]) % 256
        BY <2>4, Zenon
      <4> QED
        BY <4>1, Zenon
    <3>2. PICK m \in 1..d : to + m = t + k /\ a + m = sp + k /\ base + m = base_pos + k
      <4>1. /\ (sp - a) + k \in 1..d /\ to + ((sp - a) + k) = t + k
            /\ a + ((sp - a) + k) = sp + k /\ base + ((sp - a) + k) = base_pos + k
        BY <2>2, <2>3
      <4> QED
        BY <4>1, Zenon
    <3>3. update.image[to + m] = (L.stream[a + m] + Base[base + m]) % 256
      <4>1. \A x \in 1..Diff(p) :
              update.image[p.to + x] = (L.stream[p.diff_data + x] + Base[p.base + x]) % 256
        BY <1>2, Zenon DEF IsPart
      <4> QED
        BY <1>3, <2>1, <4>1, Zenon
    <3> QED
      BY <3>1, <3>2, <3>3, Zenon
  <2>6. Piece = [k \in 1..g |-> Piece[k]]
    BY <2>4, Zenon
  <2>7. Piece \in Seq(Byte) /\ Len(Piece) = g
    BY <1>4, <2>3, <2>5, <2>6, Zenon
  <2>8. /\ sp + g \in a..b /\ chunk_size - g = b - (sp + g)
        /\ base_pos + g = base + ((sp + g) - a) /\ t + g = to + ((sp + g) - a)
    BY <2>2, <2>3
  <2>9. InPart(L, p, "diff_data", num, chunk_size - g, base_pos + g, Len(sink) + g, sp + g)
    BY <1>3, <2>1, <2>2, <2>8, Zenon DEF InPart
  <2> QED
    BY <1>3, <1>5, <2>3, <2>5, <2>7, <2>9, Zenon DEF PieceFits
<1>6. CASE state = "extra_data"
  <2>1. PICK a \in Nat, b \in Nat : p.extra_data = a /\ p.adjustment = b
    BY <1>2
  <2>2. /\ num = NoNum /\ sp \in a..b /\ chunk_size = b - sp
        /\ base_pos = base + d /\ t = to + d + (sp - a) /\ e = b - a /\ b < w /\ to + d + e <= n
    <3>1. /\ num = NoNum /\ sp \in p.extra_data..p.adjustment /\ chunk_size = p.adjustment - sp
          /\ base_pos = p.base + Diff(p) /\ Len(sink) = p.to + Diff(p) + (sp - p.extra_data)
      BY <1>6, SMT DEF InPart
    <3>2. e = b - a /\ b < w /\ to + d + e <= n
      <4>1. e = b - a
        BY <1>3, <2>1, Zenon DEF Extra
      <4>2. b \in 0..(w - 1) /\ to + d + e <= n
        BY <1>2, <1>3, <2>1, Zenon
      <4> QED
        BY <4>1, <4>2
    <3>3. num = NoNum /\ sp \in a..b /\ chunk_size = b - sp
      BY <2>1, <3>1, Zenon
    <3>4. base_pos = base + d
      BY <1>3, <2>1, <3>1, Zenon
    <3>5. t = to + d + (sp - a)
      BY <1>3, <2>1, <3>1, Zenon
    <3> QED
      BY <3>2, <3>3, <3>4, <3>5, Zenon
  <2>3. sp + g <= b /\ sp + g < w /\ t + g <= n
    <3>1. sp + g <= b /\ sp + g < w
      BY <2>2
    <3>2. t = to + d + (sp - a) /\ sp - a \in 0..e /\ (sp - a) + g <= e
      BY <2>2
    <3>3. \A x \in Int : x \in 0..e /\ x + g <= e /\ t = to + d + x => t + g <= to + d + e
      OBVIOUS
    <3>4. t + g <= to + d + e
      BY <3>2, <3>3
    <3> QED
      BY <2>2, <3>1, <3>4
  <2>4. Piece = Data
    BY <1>6, Zenon DEF Piece
  <2>5. ASSUME NEW k \in 1..g
        PROVE  Piece[k] = update.image[t + k]
    <3>1. Piece[k] = L.stream[sp + k]
      BY <2>4, Zenon
    <3>2. PICK m \in 1..e : to + d + m = t + k /\ a + m = sp + k
      <4>1. (sp - a) + k \in 1..e /\ to + d + ((sp - a) + k) = t + k /\ a + ((sp - a) + k) = sp + k
        BY <2>2, <2>3
      <4> QED
        BY <4>1, Zenon
    <3>3. update.image[to + d + m] = L.stream[a + m]
      <4>1. \A x \in 1..Extra(p) : update.image[p.to + Diff(p) + x] = L.stream[p.extra_data + x]
        BY <1>2, Zenon DEF IsPart
      <4> QED
        BY <1>3, <2>1, <4>1, Zenon
    <3> QED
      BY <3>1, <3>2, <3>3, Zenon
  <2>6. Piece \in Seq(Byte) /\ Len(Piece) = g
    BY <2>4, Zenon
  <2>7. sp + g \in a..b /\ chunk_size - g = b - (sp + g) /\ t + g = to + d + ((sp + g) - a)
    BY <2>2, <2>3
  <2>8. InPart(L, p, "extra_data", num, chunk_size - g, base_pos, Len(sink) + g, sp + g)
    BY <1>3, <2>1, <2>2, <2>7, Zenon DEF InPart
  <2>9. state # "diff_data"
    BY <1>6
  <2> QED
    BY <1>3, <1>6, <2>3, <2>5, <2>6, <2>8, <2>9, Zenon DEF PieceFits
<1> QED
  BY <1>1, <1>5, <1>6

\* A piece of the data is written, or the sink refuses it.
LEMMA ProcessDataStep ==
  ASSUME NEW L, WrittenAs(update, L), At(L), ProcessData
  PROVE  At(L)'
<1>1. /\ ChunkIsNext /\ SinkIsGood /\ ~failed /\ Reading(L) /\ result = Running
      /\ state \in DataStates /\ Decompress
      /\ \/ sink' = sink \o Piece /\ UNCHANGED <<state, result, failed>>
         \/ failed' = TRUE /\ sink' = sink /\ result' = IoFailed
      /\ chunk_size' = chunk_size - Gives
      /\ base_pos' = (IF state = "diff_data" THEN base_pos + Gives ELSE base_pos)
      /\ UNCHANGED <<num, to_size, update, patch_offset>>
  BY DEF At, ProcessData, Decompress, Needs, Turn, Refuse, header
<1>2. PICK sp : InStream(L, sp)
  BY <1>1, ReadingIs
<1>3. /\ to_size = Len(update.image) /\ update.image # <<>> /\ sp \in 0..(Len(L.stream) - 1) /\ sp \in Nat
      /\ ReaderAt(L, Len(update.patch), reader, Read, sp)
      /\ StreamAt(L, state, num, chunk_size, base_pos, Len(sink), sp)
      /\ Len(L.stream) \in Nat
  BY <1>2, WholeIs DEF InStream
<1>4. /\ Wants \in Nat /\ sp + Wants <= Len(L.stream)
      /\ chunk_size \in Nat /\ Wants <= chunk_size
  BY <1>1, <1>2, StreamWants
<1>5. /\ Gives \in 1..Wants /\ Data \in Seq(Byte) /\ Len(Data) = Gives
      /\ \A k \in 1..Gives : Data[k] = L.stream[sp + k]
      /\ ChunkIsNext'
      /\ sp + Gives < Len(L.stream) =>
           ReaderAt(L, Len(update.patch), reader', Read', sp + Gives)
  BY <1>1, <1>3, <1>4, ReaderGives
<1>6. PICK g \in Nat : g = Gives /\ g >= 1 /\ g <= chunk_size
  BY <1>4, <1>5
<1>7. PICK i \in 1..Len(L.parts) : InPart(L, L.parts[i], state, num, chunk_size, base_pos, Len(sink), sp)
  <2>1. state # "dfpatch_size"
    BY <1>1 DEF DataStates
  <2> QED
    BY <1>3, <2>1 DEF StreamAt
<1>8. CASE failed' = TRUE /\ sink' = sink /\ result' = IoFailed
  <2>1. SinkIsGood'
    BY <1>1, <1>8, SinkStays
  <2>2. IoFailed \in Int /\ IoFailed < 0 /\ IoFailed # Running
    BY DEF IoFailed, Running
  <2> QED
    BY <1>5, <1>8, <2>1, <2>2, Failing
<1>9. CASE sink' = sink \o Piece /\ UNCHANGED <<state, result, failed>>
  <2>1. Len(sink) \in Nat /\ sink \in Seq(Byte) /\ Len(update.image) \in Nat
        /\ \A k \in 1..Len(sink) : sink[k] = update.image[k]
    BY <1>1, LenProperties, WholeIs DEF SinkIsGood
  <2>2. /\ Piece \in Seq(Byte) /\ Len(Piece) = g
        /\ Len(sink) + g <= Len(update.image)
        /\ \A k \in 1..g : Piece[k] = update.image[Len(sink) + k]
        /\ sp + g < Len(L.stream)
        /\ InPart(L, L.parts[i], state, num, chunk_size - g,
                  IF state = "diff_data" THEN base_pos + g ELSE base_pos, Len(sink) + g, sp + g)
    <3>1. Data \in Seq(Byte) /\ Len(Data) = g /\ \A k \in 1..g : Data[k] = L.stream[sp + k]
      BY <1>5, <1>6, Zenon
    <3>2. PICK p : p = L.parts[i]
      OBVIOUS
    <3>3. InPart(L, p, state, num, chunk_size, base_pos, Len(sink), sp)
      BY <1>7, <3>2, Zenon
    <3>4. PieceFits(L, p, sp, g)
      <4>1. state \in DataStates /\ update.image # <<>> /\ sp \in Nat /\ Len(sink) \in Nat
        BY <1>1, <1>3, <2>1, Zenon
      <4>2. g \in Nat /\ g = Gives /\ g >= 1 /\ g <= chunk_size
        BY <1>6, Zenon
      <4> QED
        BY <3>1, <3>2, <3>3, <4>1, <4>2, PieceIs, Zenon
    <3> QED
      BY <3>2, <3>4, Zenon DEF PieceFits
  <2>3. /\ sink' \in Seq(Byte) /\ Len(sink') = Len(sink) + g
        /\ \A k \in 1..(Len(sink) + g) :
             sink'[k] = IF k <= Len(sink) THEN sink[k] ELSE Piece[k - Len(sink)]
    <3>1. sink \in Seq(Byte) /\ Piece \in Seq(Byte) /\ Len(Piece) = g /\ Len(sink) \in Nat
      BY <2>1, <2>2, Zenon
    <3> QED
      BY <1>9, <3>1, ConcatProperties
  <2>4. ASSUME NEW k \in 1..Len(sink')
        PROVE  sink'[k] = update.image[k]
    <3>1. CASE k <= Len(sink)
      BY <2>1, <2>3, <3>1
    <3>2. CASE k > Len(sink)
      <4>1. k - Len(sink) \in 1..g /\ Len(sink) + (k - Len(sink)) = k
        BY <2>1, <2>3, <3>2
      <4> QED
        BY <2>1, <2>2, <2>3, <3>2, <4>1
    <3> QED
      BY <2>1, <3>1, <3>2
  <2>5. SinkIsGood'
    BY <1>1, <2>2, <2>3, <2>4 DEF SinkIsGood
  <2>6. StreamAt(L, state', num', chunk_size', base_pos', Len(sink'), sp + g)
    <3>1. /\ chunk_size' = chunk_size - g /\ Len(sink') = Len(sink) + g
          /\ base_pos' = (IF state = "diff_data" THEN base_pos + g ELSE base_pos)
      BY <1>1, <1>6, <2>3
    <3> QED
      BY <1>1, <1>9, <2>2, <3>1, Zenon DEF StreamAt
  <2>7. ReaderAt(L, Len(update.patch), reader', Read', sp + g)
    BY <1>5, <1>6, <2>2
  <2>8. sp + g \in 0..(Len(L.stream) - 1)
    BY <1>3, <2>2
  <2> QED
    BY <1>1, <1>3, <1>5, <1>9, <2>5, <2>6, <2>7, <2>8, InStreamNow
<1> QED
  BY <1>1, <1>8, <1>9

-----------------------------------------------------------------------------
(* The theorems.                                                             *)

\* The invariant holds at the beginning,
LEMMA ApplyBegins == ApplyInit => ApplyInv
<1> SUFFICES ASSUME ApplyInit, NEW L, WrittenAs(update, L)
             PROVE  At(L)
  BY DEF ApplyInv
<1>1. /\ chunk = <<>> /\ patch_offset = 0 /\ state = "init" /\ num = NoNum /\ base_pos = 0
      /\ sink = <<>> /\ failed = FALSE /\ result = Running
  BY DEF ApplyInit
<1>2. update.patch \in Seq(Byte) /\ update.image \in Seq(Byte)
  BY DEF WrittenAs
<1>3. Len(update.patch) \in Nat /\ Len(update.image) \in Nat /\ Len(chunk) = 0 /\ Len(sink) = 0
  BY <1>1, <1>2, LenProperties
<1>4. ChunkIsNext /\ Read = 0
  <2>1. Read = 0
    <3>1. Read = 0 - 0
      BY <1>1, <1>3, Zenon DEF Read
    <3> QED
      BY <3>1
  <2>2. chunk \in Seq(Byte)
    BY <1>1
  <2>3. 0 \in 0..Len(update.patch) /\ Len(chunk) <= patch_offset /\ 1..Len(chunk) = {}
    BY <1>1, <1>3
  <2> QED
    BY <1>1, <1>2, <2>1, <2>2, <2>3, Zenon DEF ChunkIsNext
<1>5. SinkIsGood
  BY <1>1, <1>3 DEF SinkIsGood
<1> QED
  BY <1>1, <1>4, <1>5 DEF At, Reading, ResultIsTrue

\* ... and after every step.
LEMMA ApplySteps == ApplyInv /\ [ApplyNext]_applyVars => ApplyInv'
<1> SUFFICES ASSUME ApplyInv, [ApplyNext]_applyVars
             PROVE  ApplyInv'
  OBVIOUS
<1>1. update' = update
  BY DEF applyVars, ApplyNext, PatchRead, Trailing, Finalize, FixedHeader, HeaderSize, DecompressHead,
         Starve, UnpackTooMuch, UnpackMore, DfpatchSize, DataSize, Adjustment, EndData, ProcessData, io
<1>2. SUFFICES ASSUME NEW L, WrittenAs(update, L)
               PROVE  At(L)'
  BY <1>1 DEF ApplyInv
<1>3. At(L)
  BY <1>2 DEF ApplyInv
<1>4. CASE PatchRead
  BY <1>3, <1>4, PatchReadStep
<1>5. CASE Trailing
  BY <1>2, <1>3, <1>5, TrailingStep
<1>6. CASE Finalize
  BY <1>2, <1>3, <1>6, FinalizeStep
<1>7. CASE FixedHeader
  BY <1>2, <1>3, <1>7, FixedHeaderStep
<1>8. CASE HeaderSize
  BY <1>2, <1>3, <1>8, HeaderSizeStep
<1>9. CASE DecompressHead
  BY <1>2, <1>3, <1>9, DecompressHeadStep
<1>10. CASE Starve
  BY <1>2, <1>3, <1>10, StarveStep
<1>11. CASE UnpackTooMuch
  BY <1>2, <1>3, <1>11, UnpackTooMuchStep
<1>12. CASE UnpackMore
  BY <1>2, <1>3, <1>12, UnpackMoreStep
<1>13. CASE DfpatchSize
  BY <1>2, <1>3, <1>13, DfpatchSizeStep
<1>14. CASE DataSize
  BY <1>2, <1>3, <1>14, DataSizeStep
<1>15. CASE Adjustment
  BY <1>2, <1>3, <1>15, AdjustmentStep
<1>16. CASE EndData
  BY <1>2, <1>3, <1>16, EndDataStep
<1>17. CASE ProcessData
  BY <1>2, <1>3, <1>17, ProcessDataStep
<1>18. CASE UNCHANGED applyVars
  <2>1. ChunkIsNext' <=> ChunkIsNext
    BY <1>18 DEF ChunkIsNext, Read, applyVars
  <2>2. SinkIsGood' <=> SinkIsGood
    BY <1>18 DEF SinkIsGood, applyVars
  <2>3. ResultIsTrue' <=> ResultIsTrue
    BY <1>18 DEF ResultIsTrue, Succeeded, applyVars
  <2>4. Reading(L)' <=> Reading(L)
    <3>1. Read' = Read /\ (DestroyOk' <=> DestroyOk)
      BY <1>18 DEF Read, DestroyOk, applyVars
    <3>2. \A sp : InStream(L, sp)' <=> InStream(L, sp)
      BY <1>18, <3>1 DEF InStream, applyVars
    <3> QED
      BY <1>18, <3>1, <3>2 DEF Reading, applyVars
  <2> QED
    BY <1>3, <1>18, <2>1, <2>2, <2>3, <2>4 DEF At, applyVars
<1> QED
  BY <1>4, <1>5, <1>6, <1>7, <1>8, <1>9, <1>10, <1>11, <1>12, <1>13, <1>14, <1>15, <1>16, <1>17, <1>18
     DEF ApplyNext

\* Whatever is read of a patch that detools wrote, the decoder is where the layout of the
\* patch has it (detools.c:1840-2046).
THEOREM ApplyInvariant == ApplySpec => []ApplyInv
BY ApplyBegins, ApplySteps, PTL DEF ApplySpec

\* Of such a patch the sink never holds anything but the beginning of the image, however it
\* is cut short, whatever follows it, and whatever fails (detools_apply.h:17-22).
THEOREM SinkHoldsAPrefix == ApplySpec => [](Written(update) => SinkIsPrefix)
<1>1. ApplyInv => (Written(update) => SinkIsPrefix)
  <2> SUFFICES ASSUME ApplyInv, NEW L, WrittenAs(update, L)
               PROVE  SinkIsPrefix
    BY DEF Written
  <2>1. /\ sink \in Seq(Byte) /\ Len(sink) <= Len(update.image)
        /\ \A k \in 1..Len(sink) : sink[k] = update.image[k]
    BY DEF ApplyInv, At, SinkIsGood
  <2>2. update.image \in Seq(Byte) /\ Len(update.image) \in Nat /\ Len(sink) \in Nat
    BY <2>1, WholeIs, LenProperties
  <2> DEFINE s == SubSeq(update.image, 1, Len(sink))
  <2>3. s \in Seq(Byte) /\ Len(s) = Len(sink) /\ \A k \in 1..Len(sink) : s[k] = update.image[k]
    <3>1. \A k \in 1..Len(sink) : update.image[k] \in Byte
      BY <2>1, <2>2, ElementOfSeq
    <3>2. /\ s \in Seq(Byte) /\ Len(s) = IF 1 <= Len(sink) THEN Len(sink) - 1 + 1 ELSE 0
          /\ \A k \in 1..(Len(sink) - 1 + 1) : s[k] = update.image[1 + k - 1]
      <4>1. 1 \in Int /\ Len(sink) \in Int
        BY <2>2
      <4> QED
        BY <3>1, <4>1, SubSeqProperties
    <3> QED
      BY <2>2, <3>2
  <2> HIDE DEF s
  <2>4. sink = s
    BY <2>1, <2>3, SeqEqual
  <2> QED
    BY <2>1, <2>4 DEF SinkIsPrefix, s
<1> QED
  BY <1>1, ApplyInvariant, PTL

\* Of such a patch the call succeeds exactly when it is all there and nothing failed, and
\* then the image is complete (detools_apply.h:46-51).
THEOREM TheResultIsTrue == ApplySpec => [](Written(update) => ResultIsTrue)
<1>1. ApplyInv => (Written(update) => ResultIsTrue)
  BY DEF ApplyInv, At, Written
<1> QED
  BY <1>1, ApplyInvariant, PTL
=============================================================================
