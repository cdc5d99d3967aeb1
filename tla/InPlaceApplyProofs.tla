------------------------- MODULE InPlaceApplyProofs -------------------------
(***************************************************************************)
(* The in-place apply keeps its promises for every region, every pair of   *)
(* images and every sound patch, wherever and however often it is cut      *)
(* short: the argument is the inductive invariant IInv of InPlaceApply.    *)
(***************************************************************************)
EXTENDS InPlaceApply, NaturalsInduction, WellFoundedInduction, TLAPS

-----------------------------------------------------------------------------
(* Segments and addresses.                                                   *)

\* The segments before another end where it begins, or below.
LEMMA Multiples ==
  ASSUME NEW s \in Nat, NEW j \in Int, NEW k \in Int
  PROVE  /\ j * s \in Int /\ k * s \in Int
         /\ (k + 1) * s = k * s + s /\ (k - 1) * s = k * s - s
         /\ 0 * s = 0
         /\ j <= k => j * s <= k * s
         /\ j < k => j * s + s <= k * s
<1>1. /\ j * s \in Int /\ k * s \in Int
      /\ (k + 1) * s = k * s + s /\ (k - 1) * s = k * s - s
      /\ 0 * s = 0
  BY SMT
<1>2. ASSUME j <= k PROVE j * s <= k * s
  BY <1>2, SMT
<1>3. ASSUME j < k PROVE j * s + s <= k * s
  <2>1. (j + 1) * s <= k * s
    BY <1>3, SMT
  <2>. QED
    BY <2>1, SMT
<1>. QED
  BY <1>1, <1>2, <1>3

LEMMA Ceiling ==
  ASSUME NEW a \in Nat \ {0}, NEW b \in Nat \ {0}
  PROVE  /\ DivCeil(a, b) \in Nat \ {0}
         /\ a <= DivCeil(a, b) * b
         /\ (DivCeil(a, b) - 1) * b < a
<1>. DEFINE d == (a + b - 1) \div b
<1>1. d \in Nat /\ b * d <= a + b - 1 /\ a + b - 1 < b * d + b
  BY SMT
<1>2. d * b = b * d /\ (d - 1) * b = b * d - b
  BY <1>1, SMT
<1>3. d # 0
  BY <1>1, SMT
<1>. QED
  BY <1>1, <1>2, <1>3 DEF DivCeil

LEMMA Whole ==
  ASSUME NEW a \in Nat, NEW b \in Nat \ {0}, a % b = 0
  PROVE  a \div b \in Nat /\ a = (a \div b) * b
<1>1. a \div b \in Nat /\ a = b * (a \div b) + (a % b)
  BY SMT
<1>. QED
  BY <1>1, SMT

\* The move ends with the old image, or where the region does.
LEMMA MoveFits ==
  /\ segment_size \in Nat \ {0} /\ memory_size \in Nat
  /\ shift_size \in Nat /\ segment_size <= shift_size
  /\ from_size \in Nat
  /\ number_of_segments \in Nat \ {0}
  /\ number_of_segments * segment_size \in Nat
  /\ OldEnd \in Nat /\ OldEnd <= memory_size /\ OldEnd <= shift_size + from_size
  /\ OldEnd <= shift_size + number_of_segments * segment_size
  /\ shift_size + number_of_segments * segment_size <= memory_size
<1>. DEFINE m == Smaller(from_size, memory_size - shift_size)
            n == number_of_segments
<1>1. /\ segment_size \in Nat \ {0} /\ memory_size \in Nat
      /\ shift_size \in Nat /\ segment_size <= shift_size /\ shift_size < memory_size
      /\ from_size \in Nat \ {0}
      /\ memory_size % segment_size = 0 /\ shift_size % segment_size = 0
  BY SizesAssumption
<1>2. m \in Nat \ {0} /\ m <= from_size /\ m <= memory_size - shift_size
      /\ OldEnd = shift_size + m
  BY <1>1 DEF Smaller, OldEnd
<1>3. n \in Nat \ {0} /\ m <= n * segment_size /\ (n - 1) * segment_size < m
  BY <1>1, <1>2, Ceiling DEF number_of_segments
<1>4. PICK q \in Nat : memory_size = q * segment_size
  BY <1>1, Whole
<1>5. PICK r \in Nat : shift_size = r * segment_size
  BY <1>1, Whole
<1>6. (q - r) * segment_size = memory_size - shift_size
  BY <1>1, <1>4, <1>5, SMT
<1>7. n <= q - r
  <2>. SUFFICES ASSUME q - r <= n - 1 PROVE FALSE
    BY <1>3
  <2>1. (q - r) * segment_size <= (n - 1) * segment_size
    BY <1>1, <1>3, Multiples
  <2>. QED
    BY <1>1, <1>2, <1>3, <1>6, <2>1, Multiples
<1>8. n * segment_size <= memory_size - shift_size
  BY <1>1, <1>3, <1>6, <1>7, Multiples
<1>9. n * segment_size \in Nat
  BY <1>1, <1>2, <1>3, Multiples
<1>. QED
  BY <1>1, <1>2, <1>3, <1>8, <1>9

\* The new image is made of the segments, all but the last one whole.
LEMMA SegmentsFit ==
  /\ to_size \in Nat /\ to_size <= memory_size
  /\ to_segments \in Nat \ {0}
  /\ \A i \in 0..(to_segments - 1) :
       /\ i * segment_size \in Nat
       /\ SegmentSize(i) \in 1..segment_size
       /\ i * segment_size + SegmentSize(i) <= to_size
       /\ i < to_segments - 1 =>
            SegmentSize(i) = segment_size /\ i * segment_size + segment_size < to_size
       /\ i = to_segments - 1 => i * segment_size + SegmentSize(i) = to_size
<1>1. segment_size \in Nat \ {0} /\ to_size \in Nat \ {0} /\ to_size <= memory_size
      /\ memory_size \in Nat
  BY SizesAssumption
<1>2. /\ to_segments \in Nat \ {0} /\ to_size <= to_segments * segment_size
      /\ (to_segments - 1) * segment_size < to_size
  BY <1>1, Ceiling DEF to_segments
<1>3. ASSUME NEW i \in 0..(to_segments - 1)
      PROVE  /\ i * segment_size \in Nat
             /\ SegmentSize(i) \in 1..segment_size
             /\ i * segment_size + SegmentSize(i) <= to_size
             /\ i < to_segments - 1 =>
                  SegmentSize(i) = segment_size /\ i * segment_size + segment_size < to_size
             /\ i = to_segments - 1 => i * segment_size + SegmentSize(i) = to_size
  <2>1. i * segment_size \in Nat /\ i * segment_size <= (to_segments - 1) * segment_size
    BY <1>1, <1>2, <1>3, Multiples, 0 * segment_size = 0, 0 \in Int
  <2>2. i < to_segments - 1 => i * segment_size + segment_size <= (to_segments - 1) * segment_size
    BY <1>1, <1>2, <1>3, Multiples
  <2>3. (to_segments - 1) * segment_size = to_segments * segment_size - segment_size
        /\ to_segments * segment_size \in Int
    BY <1>1, <1>2, Multiples
  <2>. QED
    BY <1>1, <1>2, <2>1, <2>2, <2>3 DEF SegmentSize, Smaller
<1>. QED
  BY <1>1, <1>2, <1>3

-----------------------------------------------------------------------------
(* The cursors of the patch reader.                                          *)

\* A set of natural numbers that is not empty has a least member.
LEMMA LeastMember ==
  ASSUME NEW X, X \subseteq Nat, X # {}
  PROVE  \E i \in X : \A j \in X : i <= j
<1>1. IsWellFoundedOn(OpToRel(<, Nat), Nat)
  BY NatLessThanWellFounded, Zenon
<1>2. PICK i \in X : \A j \in X : ~(<<j, i>> \in OpToRel(<, Nat))
  BY <1>1, WFMin, Zenon
<1>3. \A j \in X : ~(j < i)
  BY <1>2 DEF OpToRel
<1>. QED
  BY <1>3

\* A function that is what Running computes, as far as k.
RunsTo(f, k, start, moves) ==
  /\ f \in [1..k -> Int]
  /\ f[1] = start
  /\ \A c \in 2..k : f[c] = f[c - 1] + moves[c - 1]

LEMMA RunExists ==
  ASSUME NEW start \in Int, NEW moves \in Seq(Int)
  PROVE  \E f : RunsTo(f, Len(moves) + 1, start, moves)
<1>. DEFINE N == Len(moves) + 1
            Bad == {k \in 1..N : ~ \E f : RunsTo(f, k, start, moves)}
<1>1. N \in Nat \ {0}
  OBVIOUS
<1>2. Bad = {}
  <2>. SUFFICES ASSUME Bad # {} PROVE FALSE
    OBVIOUS
  <2>0. Bad \subseteq Nat
    BY <1>1
  <2>1. PICK k \in Bad : \A j \in Bad : k <= j
    <3>. HIDE DEF Bad
    <3>. QED
      BY <2>0, LeastMember
  <2>2. CASE k = 1
    <3>1. RunsTo([c \in 1..1 |-> start], 1, start, moves)
      BY DEF RunsTo
    <3>. QED
      BY <2>1, <2>2, <3>1
  <2>3. CASE k # 1
    <3>1. k - 1 \in 1..N /\ ~(k <= k - 1)
      BY <2>1, <2>3
    <3>2. PICK f : RunsTo(f, k - 1, start, moves)
      BY <2>1, <3>1
    <3>. DEFINE g == [c \in 1..k |-> IF c = k THEN f[k - 1] + moves[k - 1] ELSE f[c]]
    <3>3. moves[k - 1] \in Int /\ f[k - 1] \in Int
      BY <2>1, <3>1, <3>2 DEF RunsTo
    <3>4. g \in [1..k -> Int]
      BY <2>1, <3>2, <3>3 DEF RunsTo
    <3>5. g[1] = start
      BY <2>1, <2>3, <3>2 DEF RunsTo
    <3>6. ASSUME NEW c \in 2..k PROVE g[c] = g[c - 1] + moves[c - 1]
      BY <2>1, <3>2, <3>6 DEF RunsTo
    <3>7. RunsTo(g, k, start, moves)
      BY <3>4, <3>5, <3>6 DEF RunsTo
    <3>. QED
      BY <2>1, <3>7
  <2>. QED
    BY <2>2, <2>3
<1>3. N \in 1..N
  BY <1>1
<1>. QED
  BY <1>2, <1>3, Zenon

\* Running is defined as a recursive function, and that is what it computes.
LEMMA RunningIs ==
  ASSUME NEW start \in Int, NEW moves \in Seq(Int)
  PROVE  RunsTo(Running(start, moves), Len(moves) + 1, start, moves)
<1>. DEFINE N == Len(moves) + 1
            IsRun(g) == g = [c \in 1..N |-> IF c = 1 THEN start ELSE g[c - 1] + moves[c - 1]]
            R == CHOOSE g : IsRun(g)
<1>0. N \in Nat \ {0}
  OBVIOUS
<1>1. PICK f : RunsTo(f, N, start, moves)
  BY RunExists
<1>2. f = [c \in 1..N |-> f[c]]
  BY <1>1 DEF RunsTo
<1>3. ASSUME NEW c \in 1..N PROVE f[c] = IF c = 1 THEN start ELSE f[c - 1] + moves[c - 1]
  BY <1>0, <1>1 DEF RunsTo
<1>4. IsRun(f)
  BY <1>2, <1>3
<1>5. IsRun(R)
  <2>. HIDE DEF IsRun
  <2>. QED
    BY <1>4
<1>6. Running(start, moves) = R
  BY DEF Running
<1>. HIDE DEF R
<1>7. R = [c \in 1..N |-> R[c]] /\ \A c \in 1..N : R[c] = IF c = 1 THEN start ELSE R[c - 1] + moves[c - 1]
  BY <1>5
<1>. DEFINE Bad == {c \in 1..N : R[c] # f[c]}
<1>8. Bad = {}
  <2>. SUFFICES ASSUME Bad # {} PROVE FALSE
    OBVIOUS
  <2>0. Bad \subseteq Nat
    BY <1>0
  <2>1. PICK k \in Bad : \A j \in Bad : k <= j
    <3>. HIDE DEF Bad
    <3>. QED
      BY <2>0, LeastMember
  <2>2. k # 1
    BY <1>0, <1>7, <2>1, <1>3
  <2>3. k - 1 \in 1..N /\ ~(k <= k - 1)
    BY <2>1, <2>2, <1>0
  <2>4. R[k - 1] = f[k - 1]
    BY <2>1, <2>3
  <2>5. k \in 1..N /\ R[k] # f[k]
    BY <2>1
  <2>6. R[k] = R[k - 1] + moves[k - 1]
    BY <1>7, <2>2, <2>5
  <2>7. f[k] = f[k - 1] + moves[k - 1]
    BY <1>3, <2>2, <2>5
  <2>. QED
    BY <2>4, <2>5, <2>6, <2>7
<1>9. R = f
  BY <1>2, <1>7, <1>8
<1>. QED
  BY <1>1, <1>6, <1>9

\* A cursor that never goes back is nowhere beyond where it ends.
LEMMA RunsForward ==
  ASSUME NEW start \in Int, NEW moves \in Seq(Nat), NEW c \in 1..(Len(moves) + 1)
  PROVE  /\ start <= Running(start, moves)[c]
         /\ Running(start, moves)[c] <= Running(start, moves)[Len(moves) + 1]
<1>. DEFINE N == Len(moves) + 1
            R == Running(start, moves)
            Low == {k \in 1..N : R[k] < start}
            High == {k \in Nat : k < N /\ R[N - k] > R[N]}
<1>0. N \in Nat \ {0} /\ moves \in Seq(Int)
  OBVIOUS
<1>1. RunsTo(R, N, start, moves)
  BY <1>0, RunningIs
<1>. HIDE DEF R
<1>10. \A k \in 1..N : R[k] \in Int
  <2>. HIDE DEF N
  <2>. QED
    BY <1>1 DEF RunsTo
<1>2. ASSUME NEW k \in 2..N
      PROVE  R[k] \in Int /\ R[k - 1] \in Int /\ R[k - 1] <= R[k]
  <2>1. k \in 1..N /\ k - 1 \in 1..N /\ moves[k - 1] \in Nat
    BY <1>0
  <2>2. R[k] = R[k - 1] + moves[k - 1]
    <3>. HIDE DEF N
    <3>. QED
      BY <1>1 DEF RunsTo
  <2>3. R[k] \in Int /\ R[k - 1] \in Int
    BY <1>10, <2>1
  <2>. QED
    BY <2>1, <2>2, <2>3
<1>3. Low = {}
  <2>. SUFFICES ASSUME Low # {} PROVE FALSE
    OBVIOUS
  <2>0. Low \subseteq Nat
    BY <1>0
  <2>1. PICK k \in Low : \A j \in Low : k <= j
    <3>. HIDE DEF Low
    <3>. QED
      BY <2>0, LeastMember
  <2>2. k \in 2..N
    BY <1>0, <1>1, <2>1 DEF RunsTo
  <2>3. k - 1 \in 1..N /\ ~(k <= k - 1)
    BY <2>2
  <2>4. ~(R[k - 1] < start)
    BY <2>1, <2>3
  <2>. QED
    BY <1>2, <2>1, <2>2, <2>4
<1>4. High = {}
  <2>. SUFFICES ASSUME High # {} PROVE FALSE
    OBVIOUS
  <2>0. High \subseteq Nat
    BY <1>0
  <2>1. PICK k \in High : \A j \in High : k <= j
    <3>. HIDE DEF High
    <3>. QED
      BY <2>0, LeastMember
  <2>2. R[N] \in Int
    BY <1>0, <1>10
  <2>3. k # 0 /\ N - k \in 1..(N - 1)
    BY <1>0, <2>1, <2>2
  <2>4. k - 1 \in Nat /\ k - 1 < N /\ ~(k <= k - 1) /\ N - (k - 1) = N - k + 1
    BY <1>0, <2>1, <2>3
  <2>5. ~(R[N - k + 1] > R[N])
    BY <2>1, <2>4
  <2>6. N - k + 1 \in 2..N /\ (N - k + 1) - 1 = N - k
    BY <1>0, <2>3
  <2>7. R[N - k] <= R[N - k + 1] /\ R[N - k] \in Int /\ R[N - k + 1] \in Int
    BY <1>2, <2>6
  <2>. QED
    BY <2>1, <2>2, <2>5, <2>7
<1>5. R[c] \in Int /\ R[N] \in Int
  BY <1>0, <1>10
<1>6. ~(R[c] < start)
  BY <1>3
<1>7. N - c \in Nat /\ N - c < N /\ N - (N - c) = c
  BY <1>0
<1>8. ~(R[c] > R[N])
  BY <1>4, <1>7
<1>. QED
  BY <1>5, <1>6, <1>8 DEF R

\* The chunks of a segment read sources of it, one after the other, and fill it.
LEMMA ChunkPlaces ==
  ASSUME NEW p \in Patches, NEW i \in 0..(to_segments - 1)
  PROVE  /\ Len(p[i + 1]) \in Nat \ {0}
         /\ SourceOf(p, i)[1] = FromBase(i) /\ FilledBefore(p, i)[1] = 0
         /\ \A c \in 1..Len(p[i + 1]) :
              /\ p[i + 1][c].diff \in Nat /\ p[i + 1][c].extra \in Nat
              /\ SourceOf(p, i)[c] \in Int /\ FilledBefore(p, i)[c] \in Nat
              /\ FilledBefore(p, i)[c + 1] =
                   FilledBefore(p, i)[c] + p[i + 1][c].diff + p[i + 1][c].extra
              /\ FilledBefore(p, i)[c + 1] <= SegmentSize(i)
              /\ c = Len(p[i + 1]) => FilledBefore(p, i)[c + 1] = SegmentSize(i)
              /\ SourceOf(p, i)[c + 1] =
                   SourceOf(p, i)[c] + p[i + 1][c].diff + p[i + 1][c].adjust
              /\ \A d \in 0..(p[i + 1][c].diff - 1) :
                   FromBase(i) <= SourceOf(p, i)[c] + d /\ SourceOf(p, i)[c] + d < OldEnd
<1>. DEFINE n == Len(p[i + 1])
            jumps == [c \in 1..n |-> p[i + 1][c].diff + p[i + 1][c].adjust]
            fills == [c \in 1..n |-> p[i + 1][c].diff + p[i + 1][c].extra]
<1>1. SoundPatch(p)
  BY PatchesAssumption
<1>2. p[i + 1] \in Seq(Chunks) /\ p[i + 1] # <<>> /\ to_segments \in Nat
  BY <1>1, SegmentsFit DEF SoundPatch
<1>3. n \in Nat \ {0}
  BY <1>2
<1>4. ASSUME NEW c \in 1..n
      PROVE  p[i + 1][c].diff \in Nat /\ p[i + 1][c].extra \in Nat /\ p[i + 1][c].adjust \in Int
  <2>1. p[i + 1][c] \in Chunks
    BY <1>2
  <2>. QED
    BY <2>1 DEF Chunks
<1>5. /\ jumps \in Seq(Int) /\ Len(jumps) = n
      /\ fills \in Seq(Nat) /\ fills \in Seq(Int) /\ Len(fills) = n
  BY <1>3, <1>4
<1>6. FromBase(i) \in Int
  BY MoveFits, Multiples DEF FromBase, Larger
<1>7. /\ SourceOf(p, i) = Running(FromBase(i), jumps)
      /\ FilledBefore(p, i) = Running(0, fills)
  BY DEF SourceOf, FilledBefore
<1>8. /\ RunsTo(SourceOf(p, i), n + 1, FromBase(i), jumps)
      /\ RunsTo(FilledBefore(p, i), n + 1, 0, fills)
  <2>. HIDE DEF jumps, fills, n
  <2>. QED
    BY <1>5, <1>6, <1>7, RunningIs, 0 \in Int
<1>9. \A c \in 1..(n + 1) :
        0 <= FilledBefore(p, i)[c] /\ FilledBefore(p, i)[c] <= FilledBefore(p, i)[n + 1]
  <2>. HIDE DEF jumps, fills, n
  <2>. QED
    BY <1>5, <1>7, RunsForward, 0 \in Int
<1>10. FilledBefore(p, i)[n + 1] = SegmentSize(i)
  BY <1>1 DEF SoundPatch
<1>11. ASSUME NEW c \in 1..n, NEW d \in 0..(p[i + 1][c].diff - 1)
       PROVE  FromBase(i) <= SourceOf(p, i)[c] + d /\ SourceOf(p, i)[c] + d < OldEnd
  <2>1. SourceOf(p, i)[c] \in Int
    <3>. HIDE DEF jumps, n
    <3>1. c \in 1..(n + 1)
      BY <1>3
    <3>. QED
      BY <1>8, <3>1 DEF RunsTo
  <2>2. SourceOf(p, i)[c] + d \in SourceOf(p, i)[c]..(SourceOf(p, i)[c] + p[i + 1][c].diff - 1)
    <3>1. p[i + 1][c].diff \in Nat
      BY <1>4
    <3>2. \A a \in Int, b \in Nat : \A e \in 0..(b - 1) : a + e \in a..(a + b - 1)
      OBVIOUS
    <3>. QED
      BY <2>1, <3>1, <3>2
  <2>3. SourceOf(p, i)[c] + d \in Sources(p, i)
    BY <2>2, Zenon DEF Sources
  <2>. QED
    BY <1>1, <2>3 DEF SoundPatch
<1>12. ASSUME NEW c \in 1..n
       PROVE  /\ SourceOf(p, i)[c] \in Int /\ FilledBefore(p, i)[c] \in Int
              /\ SourceOf(p, i)[c + 1] = SourceOf(p, i)[c] + jumps[c]
              /\ FilledBefore(p, i)[c + 1] = FilledBefore(p, i)[c] + fills[c]
  <2>. HIDE DEF jumps, fills
  <2>1. c + 1 \in 2..(n + 1) /\ c \in 1..(n + 1) /\ (c + 1) - 1 = c
    BY <1>3
  <2>. HIDE DEF n
  <2>. QED
    BY <1>8, <2>1 DEF RunsTo
<1>13. /\ SourceOf(p, i)[1] = FromBase(i) /\ FilledBefore(p, i)[1] = 0
  BY <1>8 DEF RunsTo
<1>14. ASSUME NEW c \in 1..n
       PROVE  /\ SourceOf(p, i)[c] \in Int /\ FilledBefore(p, i)[c] \in Nat
              /\ FilledBefore(p, i)[c + 1] =
                   FilledBefore(p, i)[c] + p[i + 1][c].diff + p[i + 1][c].extra
              /\ FilledBefore(p, i)[c + 1] <= SegmentSize(i)
              /\ c = n => FilledBefore(p, i)[c + 1] = SegmentSize(i)
              /\ SourceOf(p, i)[c + 1] =
                   SourceOf(p, i)[c] + p[i + 1][c].diff + p[i + 1][c].adjust
  <2>1. jumps[c] = p[i + 1][c].diff + p[i + 1][c].adjust
        /\ fills[c] = p[i + 1][c].diff + p[i + 1][c].extra
    OBVIOUS
  <2>2. c + 1 \in 1..(n + 1) /\ c \in 1..(n + 1)
    BY <1>3
  <2>. HIDE DEF jumps, fills, n
  <2>. QED
    BY <1>4, <1>9, <1>10, <1>12, <2>1, <2>2
<1>. QED
  BY <1>3, <1>4, <1>11, <1>13, <1>14

-----------------------------------------------------------------------------
(* Where the step under way works, and how far the journaled ones have come. *)

LEMMA Sizes ==
  /\ Steps \in Nat /\ Steps = number_of_segments + to_segments
  /\ number_of_segments \in Nat \ {0} /\ to_segments \in Nat \ {0}
BY MoveFits, SegmentsFit DEF Steps

\* A move stays in the region, and above what it reads.
LEMMA ShiftCells ==
  ASSUME IInv, state \in ShiftStates
  PROVE  /\ shifting \in [segment : 0..(number_of_segments - 1), cell : 0..segment_size]
         /\ shifting.segment \in 0..(number_of_segments - 1) /\ shifting.cell \in 0..segment_size
         /\ ReadAddress \in Nat /\ WriteAddress = ReadAddress + shift_size
         /\ ReadAddress + segment_size <= WriteAddress /\ WriteAddress \in Nat
         /\ WriteAddress + segment_size <= memory_size
<1>. DEFINE k == shifting.segment
<1>1. shifting \in [segment : 0..(number_of_segments - 1), cell : 0..segment_size]
  BY DEF IInv, StepIsKnown
<1>2. k \in 0..(number_of_segments - 1) /\ shifting.cell \in 0..segment_size
  BY <1>1
<1>3. /\ k * segment_size >= 0 /\ k * segment_size \in Int
      /\ k * segment_size + segment_size <= number_of_segments * segment_size
  <2>1. k \in Int /\ 0 \in Int /\ number_of_segments \in Int /\ segment_size \in Nat
        /\ 0 <= k /\ k < number_of_segments
    BY <1>2, Sizes, MoveFits
  <2>. HIDE DEF k
  <2>2. /\ 0 * segment_size <= k * segment_size /\ 0 * segment_size = 0 /\ k * segment_size \in Int
        /\ k * segment_size + segment_size <= number_of_segments * segment_size
    BY <2>1, Multiples
  <2>. QED
    BY <2>2
<1>. QED
  BY <1>1, <1>2, <1>3, MoveFits DEF ReadAddress, WriteAddress

\* A move that is not journaled leaves alone what was moved, and what is still to be.
LEMMA ShiftPlace ==
  ASSUME IInv, state \in ShiftStates, ~is_step_completed
  PROVE  /\ journal = ongoing_step - 1 /\ journal < number_of_segments
         /\ journal = number_of_segments - shifting.segment - 1
         /\ ReadAddress \in Nat /\ WriteAddress = ReadAddress + shift_size
         /\ MovedFrom = ReadAddress + segment_size
         /\ KeptFrom = WriteAddress + segment_size
         /\ WrittenTo <= 0 /\ WrittenTo \in Int
         /\ WriteAddress + segment_size <= memory_size
         /\ shifting.segment = 0 => ReadAddress = 0
<1>. DEFINE k == shifting.segment
            n == number_of_segments
<1>1. /\ k \in 0..(n - 1) /\ ongoing_step = n - k
      /\ ongoing_step - 1 <= journal /\ journal \in Nat
  BY Sizes, ShiftCells DEF IInv, StepIsKnown, ShiftStates, AtWork, SegmentStates
<1>2. n \in Nat \ {0} /\ segment_size \in Nat \ {0} /\ shift_size \in Nat
  BY MoveFits
<1>3. journal = n - k - 1
  BY <1>1, <1>2 DEF is_step_completed
<1>4. n - journal = k + 1 /\ journal - n < 0
  BY <1>1, <1>2, <1>3
<1>5. MovedFrom = k * segment_size + segment_size /\ k * segment_size \in Nat
      /\ k * segment_size + segment_size <= n * segment_size
      /\ (k = 0 => k * segment_size = 0)
  <2>1. 0 \in Int /\ k \in Int /\ n \in Int /\ 0 <= k /\ k < n /\ segment_size \in Nat
    BY <1>1, <1>2
  <2>2. MovedFrom = (k + 1) * segment_size
    BY <1>4 DEF MovedFrom
  <2>. HIDE DEF k, n
  <2>3. /\ 0 * segment_size <= k * segment_size /\ 0 * segment_size = 0
        /\ k * segment_size + segment_size <= n * segment_size
        /\ (k + 1) * segment_size = k * segment_size + segment_size
        /\ k * segment_size \in Int
    BY <2>1, Multiples
  <2>. QED
    BY <2>1, <2>2, <2>3
<1>6. WrittenTo <= 0 /\ WrittenTo \in Int
  <2>1. journal - n \in Int /\ 0 \in Int /\ journal - n <= 0 /\ segment_size \in Nat
    BY <1>1, <1>2, <1>4
  <2>2. (journal - n) * segment_size <= 0 * segment_size /\ 0 * segment_size = 0
        /\ (journal - n) * segment_size \in Int
    BY <2>1, Multiples
  <2>. QED
    BY <2>2 DEF WrittenTo
<1>7. ReadAddress = k * segment_size /\ WriteAddress = k * segment_size + shift_size
  BY DEF ReadAddress, WriteAddress
<1>8. KeptFrom = shift_size + MovedFrom
  BY <1>1, <1>2, <1>3 DEF KeptFrom
<1>. HIDE DEF k
<1>. QED
  BY <1>1, <1>2, <1>3, <1>5, <1>6, <1>7, <1>8, MoveFits DEF k

\* A segment that is not journaled is below its sources, and above the finished ones.
LEMMA SegmentPlace ==
  ASSUME IInv, state \in SegmentStates, ~is_step_completed
  PROVE  /\ journal = ongoing_step - 1 /\ journal = number_of_segments + index
         /\ MovedFrom <= 0 /\ MovedFrom \in Int
         /\ WrittenTo = index * segment_size
         /\ KeptFrom = FromBase(index)
<1>1. /\ index \in 0..(to_segments - 1) /\ ongoing_step = number_of_segments + index + 1
      /\ ongoing_step - 1 <= journal /\ journal \in Nat
  BY Sizes DEF IInv, StepIsKnown, ShiftStates, AtWork
<1>2. journal = number_of_segments + index
  BY <1>1, Sizes DEF is_step_completed
<1>3. journal - number_of_segments = index /\ number_of_segments - journal = -index
      /\ ~(journal < number_of_segments)
  BY <1>1, <1>2, Sizes
<1>4. MovedFrom <= 0 /\ MovedFrom \in Int
  <2>1. -index \in Int /\ 0 \in Int /\ -index <= 0 /\ segment_size \in Nat
    BY <1>1, MoveFits, Sizes
  <2>2. (-index) * segment_size <= 0 * segment_size /\ 0 * segment_size = 0
        /\ (-index) * segment_size \in Int
    BY <2>1, Multiples
  <2>. QED
    BY <1>3, <2>2 DEF MovedFrom
<1>. QED
  BY <1>1, <1>2, <1>3, <1>4, Sizes DEF WrittenTo, KeptFrom

\* The cells of a segment of the new image.
LEMMA SegmentCellsFit ==
  ASSUME NEW i \in 0..(to_segments - 1)
  PROVE  /\ i * segment_size \in Nat /\ SegmentSize(i) \in 1..segment_size
         /\ i * segment_size + SegmentSize(i) <= memory_size
         /\ FromBase(i) \in Nat /\ i * segment_size + segment_size <= FromBase(i)
         /\ shift_size <= FromBase(i)
<1>1. /\ i * segment_size \in Nat /\ SegmentSize(i) \in 1..segment_size
      /\ i * segment_size + SegmentSize(i) <= memory_size
  BY SegmentsFit, MoveFits
<1>2. segment_size * (i + 1) = i * segment_size + segment_size
  <2>1. i \in Int /\ segment_size \in Int
    BY MoveFits, Sizes
  <2>. QED
    BY <2>1, SMT
<1>. QED
  BY <1>1, <1>2, MoveFits DEF FromBase, Larger

\* The sources of a later segment begin no lower.
LEMMA FromBaseGrows ==
  ASSUME NEW i \in 0..(to_segments - 1), NEW j \in 0..(to_segments - 1), i <= j
  PROVE  FromBase(i) <= FromBase(j) /\ FromBase(i) \in Int /\ FromBase(j) \in Int
<1>1. /\ i \in Int /\ j \in Int /\ segment_size \in Nat /\ shift_size \in Nat
  BY Sizes, MoveFits
<1>2. i * segment_size <= j * segment_size
      /\ i * segment_size \in Int /\ j * segment_size \in Int
  BY <1>1, Multiples
<1>3. /\ segment_size * (i + 1) = i * segment_size + segment_size
      /\ segment_size * (j + 1) = j * segment_size + segment_size
  BY <1>1, SMT
<1>. QED
  BY <1>1, <1>2, <1>3 DEF FromBase, Larger

\* The reader is inside its segment, and a diff's source is one of the patch's.
LEMMA ReaderPlace ==
  ASSUME IInv, state \in ReaderStates
  PROVE  /\ patch \in Patches /\ index \in 0..(to_segments - 1)
         /\ Here.diff \in Nat /\ Here.extra \in Nat
         /\ DiffLeft \in 0..Here.diff /\ ExtraLeft \in 0..Here.extra
         /\ segment_pos \in Nat /\ from_offset \in Int
         /\ segment_pos + DiffLeft + ExtraLeft = FilledBefore(patch, index)[chunk + 1]
         /\ segment_pos + DiffLeft + ExtraLeft <= SegmentSize(index)
         /\ from_offset + DiffLeft = SourceOf(patch, index)[chunk] + Here.diff
         /\ DiffLeft > 0 => FromBase(index) <= from_offset /\ from_offset < OldEnd
<1>1. /\ patch \in Patches /\ index \in 0..(to_segments - 1)
  BY DEF IInv, StepIsKnown, SegmentStates
<1>2. /\ chunk \in 1..Len(patch[index + 1])
      /\ DiffLeft \in 0..Here.diff /\ ExtraLeft \in 0..Here.extra
      /\ from_offset = SourceOf(patch, index)[chunk] + Here.diff - DiffLeft
      /\ segment_pos = FilledBefore(patch, index)[chunk]
                         + (Here.diff - DiffLeft) + (Here.extra - ExtraLeft)
  BY DEF IInv, ReaderIsAtItsPlace
<1>3. /\ Here.diff \in Nat /\ Here.extra \in Nat
      /\ SourceOf(patch, index)[chunk] \in Int /\ FilledBefore(patch, index)[chunk] \in Nat
      /\ FilledBefore(patch, index)[chunk + 1] =
           FilledBefore(patch, index)[chunk] + Here.diff + Here.extra
      /\ FilledBefore(patch, index)[chunk + 1] <= SegmentSize(index)
      /\ \A d \in 0..(Here.diff - 1) :
           /\ FromBase(index) <= SourceOf(patch, index)[chunk] + d
           /\ SourceOf(patch, index)[chunk] + d < OldEnd
  BY <1>1, <1>2, ChunkPlaces DEF Here
<1>. DEFINE d == Here.diff
            e == Here.extra
            x == DiffLeft
            y == ExtraLeft
            from == SourceOf(patch, index)[chunk]
            filled == FilledBefore(patch, index)[chunk]
            next == FilledBefore(patch, index)[chunk + 1]
<1>4. /\ segment_pos \in Nat /\ from_offset \in Int
      /\ segment_pos + x + y = next
      /\ from_offset + x = from + d
      /\ from_offset = from + (d - x)
      /\ x > 0 => d - x \in 0..(d - 1)
  <2>1. /\ d \in Nat /\ e \in Nat /\ x \in 0..d /\ y \in 0..e
        /\ from \in Int /\ filled \in Nat /\ next = filled + d + e
        /\ from_offset = from + d - x /\ segment_pos = filled + (d - x) + (e - y)
    BY <1>2, <1>3, Zenon
  <2>. HIDE DEF d, e, x, y, from, filled, next
  <2>. QED
    BY <2>1
<1>5. DiffLeft > 0 => FromBase(index) <= from_offset /\ from_offset < OldEnd
  BY <1>3, <1>4
<1>. QED
  BY <1>1, <1>2, <1>3, <1>4, <1>5, Zenon

-----------------------------------------------------------------------------
(* Every step keeps the invariant.                                           *)

LEMMA InitIInv == Init => IInv
<1>. SUFFICES ASSUME Init PROVE IInv
  OBVIOUS
<1>1. StepIsKnown
  BY Sizes DEF Init, StepIsKnown, AtWork, ShiftStates, SegmentStates, ReaderStates
<1>2. ReaderIsAtItsPlace /\ StepIsInOrder /\ state # "done"
  BY DEF Init, ReaderIsAtItsPlace, StepIsInOrder, ReaderStates
<1>3. RegionIsInOrder
  <2>1. journal = 0 /\ flash = [a \in Address |-> IF a < from_size THEN Old(a) ELSE Erased]
    BY DEF Init
  <2>2. MovedFrom = number_of_segments * segment_size /\ journal < number_of_segments
    BY <2>1, Sizes DEF MovedFrom
  <2>3. KeptFrom >= OldEnd /\ KeptFrom \in Int
    BY <2>2, MoveFits DEF KeptFrom
  <2>4. WrittenTo <= 0 /\ WrittenTo \in Int
    <3>1. journal - number_of_segments \in Int /\ 0 \in Int /\ segment_size \in Nat
          /\ journal - number_of_segments <= 0
      BY <2>1, Sizes, MoveFits
    <3>2. (journal - number_of_segments) * segment_size <= 0 * segment_size
          /\ (journal - number_of_segments) * segment_size \in Int /\ 0 * segment_size = 0
      BY <3>1, Multiples
    <3>. QED
      BY <3>2 DEF WrittenTo
  <2>5. \A a \in 0..(MovedFrom - 1) : a \in Address
    BY <2>2, MoveFits DEF Address
  <2>6. \A a \in 0..(MovedFrom - 1) : a < from_size => flash[a] = Old(a)
    BY <2>1, <2>5
  <2>7. OldEnd \in Int
    BY MoveFits
  <2>. QED
    BY <2>3, <2>4, <2>6, <2>7 DEF RegionIsInOrder
<1>. QED
  BY <1>1, <1>2, <1>3 DEF IInv

\* A step that journals nothing and touches no cell leaves the region in order.
LEMMA UntouchedRegion ==
  ASSUME IInv, state # "done", UNCHANGED <<flash, journal>>
  PROVE  RegionIsInOrder'
BY DEF IInv, RegionIsInOrder, MovedFrom, WrittenTo, KeptFrom

LEMMA ReadHeaderKeeps == ASSUME IInv, ReadHeader PROVE IInv'
<1>1. state = "init" /\ state' = "shift_erase"
  BY DEF ReadHeader
<1>2. RegionIsInOrder'
  BY <1>1, UntouchedRegion DEF ReadHeader
<1>3. StepIsKnown'
  BY Sizes, MoveFits DEF IInv, StepIsKnown, ReadHeader, AtWork, ShiftStates, SegmentStates, ReaderStates
<1>4. ReaderIsAtItsPlace' /\ StepIsInOrder'
  BY <1>1 DEF ReaderIsAtItsPlace, StepIsInOrder, ReaderStates
<1>. QED
  BY <1>1, <1>2, <1>3, <1>4 DEF IInv

\* What an erase, or a write, makes of the cells.
LEMMA Erasing ==
  ASSUME IInv, NEW from \in Nat, NEW to \in Int, MemErase(from, to)
  PROVE  /\ is_step_completed => flash' = flash
         /\ DOMAIN flash' = Address
         /\ ~is_step_completed =>
              \A a \in Address : flash'[a] = IF a \in from..to THEN Erased ELSE flash[a]
BY DEF MemErase, IInv, StepIsKnown

LEMMA Writing ==
  ASSUME IInv, NEW a0 \in Address, NEW v, MemWrite(a0, v)
  PROVE  /\ is_step_completed => flash' = flash
         /\ DOMAIN flash' = Address
         /\ \A a : a # a0 => flash'[a] = flash[a]
         /\ ~is_step_completed /\ flash[a0] = Erased => flash'[a0] = v
<1>1. DOMAIN flash = Address
  BY DEF IInv, StepIsKnown
<1>2. CASE is_step_completed
  BY <1>1, <1>2 DEF MemWrite
<1>3. CASE ~is_step_completed
  <2>1. flash' = [flash EXCEPT ![a0] = Written(flash[a0], v)]
    BY <1>3 DEF MemWrite
  <2>2. DOMAIN flash' = Address /\ flash'[a0] = Written(flash[a0], v)
    BY <1>1, <2>1
  <2>3. ASSUME NEW a, a # a0 PROVE flash'[a] = flash[a]
    BY <1>1, <2>1, <2>3
  <2>. QED
    BY <1>3, <2>2, <2>3 DEF Written
<1>. QED
  BY <1>2, <1>3

LEMMA ShiftEraseKeeps == ASSUME IInv, ShiftErase PROVE IInv'
<1>1. state = "shift_erase" /\ state' = "shift_copy" /\ UNCHANGED <<patch, journal, ongoing_step, shifting, index>>
      /\ state \in ShiftStates /\ state \in AtWork
  BY DEF ShiftErase, ShiftStates, AtWork
<1>2. /\ ReadAddress \in Nat /\ WriteAddress \in Nat /\ segment_size \in Nat
      /\ ReadAddress' = ReadAddress /\ WriteAddress' = WriteAddress
      /\ is_step_completed' <=> is_step_completed
      /\ MemErase(WriteAddress, WriteAddress + segment_size - 1)
  BY <1>1, ShiftCells, MoveFits DEF ReadAddress, WriteAddress, is_step_completed, ShiftErase
<1>3. /\ is_step_completed => flash' = flash
      /\ DOMAIN flash' = Address
      /\ ~is_step_completed =>
           \A a \in Address : flash'[a] = IF a \in WriteAddress..(WriteAddress + segment_size - 1)
                                          THEN Erased ELSE flash[a]
  BY <1>2, Erasing
<1>4. StepIsKnown'
  BY <1>1, <1>3 DEF IInv, StepIsKnown, ShiftStates, SegmentStates, AtWork, ReaderStates
<1>5. ReaderIsAtItsPlace' /\ state' # "done"
  BY <1>1 DEF ReaderIsAtItsPlace, ReaderStates
<1>6. RegionIsInOrder' /\ StepIsInOrder'
  <2>1. CASE is_step_completed
    BY <1>1, <1>2, <1>3, <2>1, UntouchedRegion DEF StepIsInOrder, ReaderStates
  <2>2. CASE ~is_step_completed
    <3>1. /\ MovedFrom = ReadAddress + segment_size /\ KeptFrom = WriteAddress + segment_size
          /\ MovedFrom <= WriteAddress /\ WrittenTo <= 0 /\ WrittenTo \in Int
          /\ WriteAddress + segment_size <= memory_size /\ memory_size \in Nat
          /\ OldEnd \in Nat /\ OldEnd <= memory_size
      BY <1>1, <2>2, ShiftPlace, MoveFits
    <3>2. MovedFrom' = MovedFrom /\ KeptFrom' = KeptFrom /\ WrittenTo' = WrittenTo
      BY <1>1 DEF MovedFrom, KeptFrom, WrittenTo
    <3>3. RegionIsInOrder
      BY DEF IInv
    <3>4. ASSUME NEW a \in 0..(MovedFrom - 1), a < from_size PROVE flash'[a] = Old(a)
      <4>1. a \in Address /\ a \notin WriteAddress..(WriteAddress + segment_size - 1)
        BY <1>2, <3>1 DEF Address
      <4>. QED
        BY <1>1, <1>3, <2>2, <3>3, <3>4, <4>1 DEF RegionIsInOrder
    <3>5. ASSUME NEW a \in KeptFrom..(OldEnd - 1) PROVE flash'[a] = Old(a - shift_size)
      <4>1. a \in Address /\ a \notin WriteAddress..(WriteAddress + segment_size - 1)
        BY <1>2, <3>1 DEF Address
      <4>. QED
        BY <1>1, <1>3, <2>2, <3>3, <4>1 DEF RegionIsInOrder
    <3>6. \A a \in 0..(WrittenTo - 1) : flash'[a] = New(a)
      BY <3>1
    <3>7. RegionIsInOrder'
      BY <3>2, <3>4, <3>5, <3>6 DEF RegionIsInOrder
    <3>8. ASSUME NEW c \in 0..(segment_size - 1)
          PROVE  flash'[WriteAddress + c] = Erased /\ ~(c < shifting.cell)
      <4>1. WriteAddress + c \in Address
            /\ WriteAddress + c \in WriteAddress..(WriteAddress + segment_size - 1)
        BY <1>2, <3>1 DEF Address
      <4>2. shifting.cell = 0
        BY <1>1 DEF IInv, StepIsKnown
      <4>. QED
        BY <1>3, <2>2, <4>1, <4>2
    <3>9. StepIsInOrder'
      BY <1>1, <1>2, <3>8 DEF StepIsInOrder, ReaderStates
    <3>. QED
      BY <3>7, <3>9
  <2>. QED
    BY <2>1, <2>2
<1>. QED
  BY <1>4, <1>5, <1>6 DEF IInv

LEMMA ShiftCopyKeeps == ASSUME IInv, ShiftCopy PROVE IInv'
<1>. DEFINE cell == shifting.cell
            target == WriteAddress + cell
            v == MemRead(ReadAddress + cell)
<1>1. /\ state = "shift_copy" /\ state' = state /\ state \in ShiftStates
      /\ UNCHANGED <<patch, journal, ongoing_step, index>>
      /\ cell < segment_size
      /\ MemWrite(target, v)
  BY DEF ShiftCopy, ShiftStates
<1>2. /\ cell \in 0..(segment_size - 1) /\ segment_size \in Nat
      /\ ReadAddress \in Nat /\ WriteAddress = ReadAddress + shift_size
      /\ ReadAddress + segment_size <= WriteAddress /\ WriteAddress \in Nat
      /\ WriteAddress + segment_size <= memory_size
      /\ memory_size \in Nat /\ OldEnd \in Nat /\ OldEnd <= memory_size
  BY <1>1, ShiftCells, MoveFits
<1>3. shifting' = [shifting EXCEPT !.cell = cell + 1]
  BY DEF ShiftCopy
<1>4. /\ shifting' \in [segment : 0..(number_of_segments - 1), cell : 0..segment_size]
      /\ shifting'.segment = shifting.segment /\ shifting'.cell = cell + 1
  <2>1. shifting \in [segment : 0..(number_of_segments - 1), cell : 0..segment_size]
        /\ cell + 1 \in 0..segment_size
    BY <1>1, <1>2, ShiftCells
  <2>. HIDE DEF cell
  <2>. QED
    BY <1>3, <2>1
<1>5. /\ ReadAddress' = ReadAddress /\ WriteAddress' = WriteAddress
      /\ is_step_completed' <=> is_step_completed
  BY <1>1, <1>4 DEF ReadAddress, WriteAddress, is_step_completed
<1>6. target \in Address
  BY <1>2 DEF Address
<1>7. /\ is_step_completed => flash' = flash
      /\ DOMAIN flash' = Address
      /\ \A a : a # target => flash'[a] = flash[a]
      /\ ~is_step_completed /\ flash[target] = Erased => flash'[target] = v
  <2>. HIDE DEF target, v
  <2>. QED
    BY <1>1, <1>6, Writing
<1>8. StepIsKnown'
  BY <1>1, <1>4, <1>7 DEF IInv, StepIsKnown, ShiftStates, SegmentStates, AtWork, ReaderStates
<1>9. ReaderIsAtItsPlace' /\ state' # "done"
  BY <1>1 DEF ReaderIsAtItsPlace, ReaderStates
<1>10. RegionIsInOrder' /\ StepIsInOrder'
  <2>1. CASE is_step_completed
    BY <1>1, <1>5, <1>7, <2>1, UntouchedRegion DEF StepIsInOrder, ReaderStates
  <2>2. CASE ~is_step_completed
    <3>1. /\ MovedFrom = ReadAddress + segment_size /\ KeptFrom = WriteAddress + segment_size
          /\ WrittenTo <= 0 /\ WrittenTo \in Int
      BY <1>1, <2>2, ShiftPlace
    <3>2. MovedFrom' = MovedFrom /\ KeptFrom' = KeptFrom /\ WrittenTo' = WrittenTo
      BY <1>1 DEF MovedFrom, KeptFrom, WrittenTo
    <3>3. /\ \A a \in 0..(MovedFrom - 1) : a < from_size => flash[a] = Old(a)
          /\ \A a \in KeptFrom..(OldEnd - 1) : flash[a] = Old(a - shift_size)
      BY <1>1 DEF IInv, RegionIsInOrder
    <3>4. ASSUME NEW a \in 0..(MovedFrom - 1), a < from_size PROVE flash'[a] = Old(a)
      <4>1. a # target
        BY <1>2, <3>1
      <4>. QED
        BY <1>7, <3>3, <3>4, <4>1
    <3>5. ASSUME NEW a \in KeptFrom..(OldEnd - 1) PROVE flash'[a] = Old(a - shift_size)
      <4>1. a # target
        BY <1>2, <3>1
      <4>. QED
        BY <1>7, <3>3, <4>1
    <3>6. \A a \in 0..(WrittenTo - 1) : flash'[a] = New(a)
      BY <3>1
    <3>7. RegionIsInOrder'
      BY <3>2, <3>4, <3>5, <3>6 DEF RegionIsInOrder
    <3>8. \A c \in 0..(segment_size - 1) :
            IF c < cell
            THEN ReadAddress + c < from_size => flash[WriteAddress + c] = Old(ReadAddress + c)
            ELSE flash[WriteAddress + c] = Erased
      BY <1>1, <2>2 DEF IInv, StepIsInOrder
    <3>9. flash'[target] = v
      BY <1>2, <1>7, <2>2, <3>8
    <3>10. ReadAddress + cell < from_size => v = Old(ReadAddress + cell)
      <4>1. ReadAddress + cell \in 0..(MovedFrom - 1)
        BY <1>2, <3>1
      <4>. QED
        BY <2>2, <3>3, <4>1 DEF MemRead
    <3>11. ASSUME NEW c \in 0..(segment_size - 1)
           PROVE  IF c < cell + 1
                  THEN ReadAddress + c < from_size => flash'[WriteAddress + c] = Old(ReadAddress + c)
                  ELSE flash'[WriteAddress + c] = Erased
      <4>1. CASE c = cell
        BY <1>2, <3>9, <3>10, <4>1
      <4>2. CASE c # cell
        <5>1. WriteAddress + c # target /\ (c < cell + 1 <=> c < cell)
          BY <1>2, <4>2
        <5>. QED
          BY <1>7, <3>8, <5>1
      <4>. QED
        BY <4>1, <4>2
    <3>12. StepIsInOrder'
      <4>. HIDE DEF cell
      <4>. QED
        BY <1>1, <1>4, <1>5, <3>11 DEF StepIsInOrder, ReaderStates
    <3>. QED
      BY <3>7, <3>12
  <2>. QED
    BY <2>1, <2>2
<1>. QED
  BY <1>8, <1>9, <1>10 DEF IInv

LEMMA ShiftNextKeeps == ASSUME IInv, ShiftNext PROVE IInv'
<1>. DEFINE k == shifting.segment
<1>1. /\ state = "shift_copy" /\ state \in ShiftStates /\ shifting.cell = segment_size
      /\ state' = IF k = 0 THEN "dfpatch_size" ELSE "shift_erase"
      /\ shifting' = [segment |-> k - 1, cell |-> 0]
      /\ UNCHANGED <<patch, flash, index>>
      /\ ongoing_step' = ongoing_step + 1
      /\ journal' = IF is_step_completed THEN journal ELSE ongoing_step
  BY DEF ShiftNext, NextStep, ShiftStates
<1>2. /\ k \in 0..(number_of_segments - 1) /\ segment_size \in Nat \ {0} /\ shift_size \in Nat
      /\ segment_size <= shift_size
      /\ ReadAddress \in Nat /\ WriteAddress = ReadAddress + shift_size
      /\ ReadAddress + segment_size <= WriteAddress /\ WriteAddress \in Nat
      /\ OldEnd \in Nat /\ OldEnd <= shift_size + from_size /\ from_size \in Nat
  BY <1>1, ShiftCells, MoveFits
<1>3. /\ ongoing_step = number_of_segments - k /\ index = 0
      /\ ongoing_step - 1 <= journal /\ journal \in 0..(Steps - 1)
  BY <1>1 DEF IInv, StepIsKnown, AtWork
<1>4. StepIsKnown'
  <2>1. journal' \in 0..(Steps - 1) /\ ongoing_step' - 1 <= journal'
    BY <1>1, <1>2, <1>3, Sizes DEF is_step_completed
  <2>2. k # 0 => [segment |-> k - 1, cell |-> 0] \in
                    [segment : 0..(number_of_segments - 1), cell : 0..segment_size]
    BY <1>2, Sizes
  <2>3. /\ k = 0 => ongoing_step' = number_of_segments + 0 + 1
        /\ k # 0 => ongoing_step' = number_of_segments - (k - 1)
        /\ 0 \in 0..(to_segments - 1)
    BY <1>1, <1>2, <1>3, Sizes
  <2>4. patch \in Patches /\ DOMAIN flash = Address
    BY DEF IInv, StepIsKnown
  <2>. QED
    BY <1>1, <1>3, <2>1, <2>2, <2>3, <2>4
    DEF StepIsKnown, ShiftStates, SegmentStates, AtWork, ReaderStates
<1>5. ReaderIsAtItsPlace' /\ StepIsInOrder' /\ state' # "done"
  BY <1>1 DEF ReaderIsAtItsPlace, StepIsInOrder, ReaderStates
<1>6. RegionIsInOrder'
  <2>1. CASE is_step_completed
    BY <1>1, <2>1, UntouchedRegion
  <2>2. CASE ~is_step_completed
    <3>1. /\ MovedFrom = ReadAddress + segment_size /\ KeptFrom = WriteAddress + segment_size
          /\ journal = number_of_segments - k - 1
          /\ k = 0 => ReadAddress = 0
      BY <1>1, <2>2, ShiftPlace
    <3>2. journal' = number_of_segments - k
      BY <1>1, <1>3, <2>2
    <3>3. MovedFrom' = ReadAddress
      <4>1. number_of_segments - journal' = k
        BY <1>2, <3>2, Sizes
      <4>. QED
        BY <4>1 DEF MovedFrom, ReadAddress
    <3>4. KeptFrom' = WriteAddress
      <4>1. CASE k = 0
        <5>1. journal' - number_of_segments = 0 /\ ~(journal' < number_of_segments)
          BY <3>2, <4>1, Sizes
        <5>2. FromBase(0) = shift_size
          BY <1>2 DEF FromBase, Larger
        <5>3. KeptFrom' = FromBase(journal' - number_of_segments)
          BY <5>1, Zenon DEF KeptFrom
        <5>4. FromBase(journal' - number_of_segments) = FromBase(0)
          BY <5>1, Zenon
        <5>. QED
          BY <1>2, <3>1, <4>1, <5>2, <5>3, <5>4
      <4>2. CASE k # 0
        <5>1. journal' < number_of_segments
          BY <1>2, <3>2, <4>2, Sizes
        <5>. QED
          BY <1>2, <3>3, <5>1 DEF KeptFrom
      <4>. QED
        BY <4>1, <4>2
    <3>5. WrittenTo' <= 0 /\ WrittenTo' \in Int
      <4>1. journal' - number_of_segments \in Int /\ journal' - number_of_segments <= 0
            /\ segment_size \in Nat /\ 0 \in Int
        BY <1>2, <3>2, Sizes
      <4>2. (journal' - number_of_segments) * segment_size <= 0 * segment_size
            /\ (journal' - number_of_segments) * segment_size \in Int /\ 0 * segment_size = 0
        BY <4>1, Multiples
      <4>. QED
        BY <4>2 DEF WrittenTo
    <3>6. /\ \A a \in 0..(MovedFrom - 1) : a < from_size => flash[a] = Old(a)
          /\ \A a \in KeptFrom..(OldEnd - 1) : flash[a] = Old(a - shift_size)
          /\ \A c \in 0..(segment_size - 1) :
               ReadAddress + c < from_size => flash[WriteAddress + c] = Old(ReadAddress + c)
      <4>1. \A c \in 0..(segment_size - 1) :
              ReadAddress + c < from_size => flash[WriteAddress + c] = Old(ReadAddress + c)
        <5>1. \A c \in 0..(segment_size - 1) : c < shifting.cell
          BY <1>1, <1>2
        <5>. QED
          BY <1>1, <2>2, <5>1 DEF IInv, StepIsInOrder
      <4>. QED
        BY <1>1, <4>1 DEF IInv, RegionIsInOrder
    <3>7. ASSUME NEW a \in WriteAddress..(OldEnd - 1) PROVE flash[a] = Old(a - shift_size)
      <4>1. CASE a < WriteAddress + segment_size
        <5>1. /\ a - WriteAddress \in 0..(segment_size - 1)
              /\ WriteAddress + (a - WriteAddress) = a
              /\ ReadAddress + (a - WriteAddress) = a - shift_size
              /\ a - shift_size < from_size
          BY <1>2, <4>1
        <5>. QED
          BY <3>6, <5>1
      <4>2. CASE ~(a < WriteAddress + segment_size)
        <5>1. a \in KeptFrom..(OldEnd - 1)
          BY <1>2, <3>1, <4>2
        <5>. QED
          BY <3>6, <5>1
      <4>. QED
        BY <4>1, <4>2
    <3>8. \A a \in 0..(ReadAddress - 1) : a < from_size => flash[a] = Old(a)
      BY <1>2, <3>1, <3>6
    <3>9. ASSUME NEW a \in 0..(WrittenTo' - 1) PROVE flash[a] = New(a)
      <4>. DEFINE w == WrittenTo'
      <4>1. w <= 0 /\ w \in Int /\ a \in 0..(w - 1)
        BY <3>5
      <4>. HIDE DEF w
      <4>. QED
        BY <4>1
    <3>. QED
      BY <1>1, <3>3, <3>4, <3>7, <3>8, <3>9 DEF RegionIsInOrder
  <2>. QED
    BY <2>1, <2>2
<1>. QED
  BY <1>4, <1>5, <1>6 DEF IInv

LEMMA BeginSegmentKeeps == ASSUME IInv, BeginSegment PROVE IInv'
<1>. DEFINE base == index * segment_size
<1>1. /\ state = "dfpatch_size" /\ state' = "diff_size" /\ state \in SegmentStates
      /\ from_offset' = FromBase(index) /\ segment_pos' = 0 /\ chunk' = 1
      /\ UNCHANGED <<patch, journal, ongoing_step, index>>
      /\ MemErase(base, base + SegmentSize(index) - 1)
  BY DEF BeginSegment, SegmentStates
<1>2. index \in 0..(to_segments - 1) /\ patch \in Patches
  BY <1>1 DEF IInv, StepIsKnown
<1>3. /\ base \in Nat /\ SegmentSize(index) \in 1..segment_size
      /\ base + SegmentSize(index) <= memory_size /\ memory_size \in Nat
      /\ FromBase(index) \in Nat /\ base + segment_size <= FromBase(index)
      /\ OldEnd \in Nat /\ OldEnd <= memory_size /\ segment_size \in Nat
  BY <1>2, SegmentCellsFit, MoveFits
<1>4. /\ is_step_completed => flash' = flash
      /\ DOMAIN flash' = Address
      /\ ~is_step_completed =>
           \A a \in Address : flash'[a] = IF a \in base..(base + SegmentSize(index) - 1)
                                          THEN Erased ELSE flash[a]
  <2>1. base + SegmentSize(index) - 1 \in Int
    BY <1>3
  <2>. HIDE DEF base
  <2>. QED
    BY <1>1, <1>3, <2>1, Erasing
<1>5. is_step_completed' <=> is_step_completed
  BY <1>1 DEF is_step_completed
<1>6. StepIsKnown' /\ state' # "done"
  BY <1>1, <1>4 DEF IInv, StepIsKnown, ShiftStates, SegmentStates, AtWork, ReaderStates
<1>7. ReaderIsAtItsPlace'
  <2>1. /\ 1 \in 1..Len(patch[index + 1])
        /\ SourceOf(patch, index)[1] = FromBase(index) /\ FilledBefore(patch, index)[1] = 0
        /\ patch[index + 1][1].diff \in Nat /\ patch[index + 1][1].extra \in Nat
    BY <1>2, ChunkPlaces
  <2>2. Here' = patch[index + 1][1]
    BY <1>1 DEF Here
  <2>3. DiffLeft' = patch[index + 1][1].diff /\ ExtraLeft' = patch[index + 1][1].extra
    BY <1>1, <2>2 DEF DiffLeft, ExtraLeft
  <2>. DEFINE d == patch[index + 1][1].diff
              e == patch[index + 1][1].extra
  <2>4. /\ d \in 0..d /\ e \in 0..e
        /\ from_offset' = SourceOf(patch, index)[1] + d - d
        /\ segment_pos' = FilledBefore(patch, index)[1] + (d - d) + (e - e)
    <3>1. d \in Nat /\ e \in Nat
      BY <2>1
    <3>. HIDE DEF d, e
    <3>. QED
      BY <1>1, <1>3, <2>1, <3>1
  <2>5. /\ DiffLeft' \in 0..Here'.diff /\ ExtraLeft' \in 0..Here'.extra
        /\ from_offset' = SourceOf(patch, index)[1] + Here'.diff - DiffLeft'
        /\ segment_pos' = FilledBefore(patch, index)[1]
                            + (Here'.diff - DiffLeft') + (Here'.extra - ExtraLeft')
    BY <2>2, <2>3, <2>4, Zenon
  <2>. QED
    BY <1>1, <2>1, <2>5, Zenon DEF ReaderIsAtItsPlace
<1>8. RegionIsInOrder' /\ StepIsInOrder'
  <2>1. CASE is_step_completed
    BY <1>1, <1>4, <1>5, <2>1, UntouchedRegion DEF StepIsInOrder, ReaderStates
  <2>2. CASE ~is_step_completed
    <3>1. /\ MovedFrom <= 0 /\ MovedFrom \in Int
          /\ WrittenTo = base /\ KeptFrom = FromBase(index)
      BY <1>1, <2>2, SegmentPlace
    <3>2. MovedFrom' = MovedFrom /\ KeptFrom' = KeptFrom /\ WrittenTo' = WrittenTo
      BY <1>1 DEF MovedFrom, KeptFrom, WrittenTo
    <3>3. /\ \A a \in 0..(WrittenTo - 1) : flash[a] = New(a)
          /\ \A a \in KeptFrom..(OldEnd - 1) : flash[a] = Old(a - shift_size)
      BY <1>1 DEF IInv, RegionIsInOrder
    <3>4. ASSUME NEW a \in 0..(WrittenTo - 1) PROVE flash'[a] = New(a)
      <4>1. a \in Address /\ a \notin base..(base + SegmentSize(index) - 1)
        BY <1>3, <3>1 DEF Address
      <4>. QED
        BY <1>4, <2>2, <3>3, <4>1
    <3>5. ASSUME NEW a \in KeptFrom..(OldEnd - 1) PROVE flash'[a] = Old(a - shift_size)
      <4>1. a \in Address /\ a \notin base..(base + SegmentSize(index) - 1)
        BY <1>3, <3>1 DEF Address
      <4>. QED
        BY <1>4, <2>2, <3>3, <4>1
    <3>6. \A a \in 0..(MovedFrom - 1) : FALSE
      BY <3>1
    <3>7. RegionIsInOrder'
      BY <3>2, <3>4, <3>5, <3>6 DEF RegionIsInOrder
    <3>8. ASSUME NEW c \in 0..(SegmentSize(index) - 1)
          PROVE  flash'[base + c] = Erased /\ ~(c < 0)
      <4>1. base + c \in Address /\ base + c \in base..(base + SegmentSize(index) - 1) /\ ~(c < 0)
        BY <1>3 DEF Address
      <4>. QED
        BY <1>4, <2>2, <4>1
    <3>9. StepIsInOrder'
      BY <1>1, <3>8 DEF StepIsInOrder
    <3>. QED
      BY <3>7, <3>9
  <2>. QED
    BY <2>1, <2>2
<1>. QED
  BY <1>6, <1>7, <1>8 DEF IInv

\* The reader goes on without a step of the journal and without touching the flash.
LEMMA UntouchedSegment ==
  ASSUME IInv, state \in ReaderStates, state' \in ReaderStates,
         UNCHANGED <<patch, flash, journal, ongoing_step, shifting, index, segment_pos>>
  PROVE  StepIsKnown' /\ RegionIsInOrder' /\ StepIsInOrder' /\ state' # "done"
<1>1. StepIsKnown'
  BY DEF IInv, StepIsKnown, ShiftStates, SegmentStates, AtWork, ReaderStates
<1>2. state # "done" /\ state' # "done" /\ state' # "shift_copy"
  BY DEF ReaderStates
<1>3. RegionIsInOrder'
  BY <1>2, UntouchedRegion
<1>4. StepIsInOrder'
  BY <1>2 DEF IInv, StepIsInOrder, is_step_completed
<1>. QED
  BY <1>1, <1>2, <1>3, <1>4

LEMMA ReadSizeKeeps == ASSUME IInv, ReadSize PROVE IInv'
<1>1. /\ state \in ReaderStates /\ state' \in ReaderStates
      /\ UNCHANGED <<patch, flash, journal, ongoing_step, shifting, index, segment_pos, chunk, from_offset>>
  BY DEF ReadSize, ReaderStates
<1>2. Here' = Here
  BY <1>1 DEF Here
<1>3. DiffLeft' = DiffLeft /\ ExtraLeft' = ExtraLeft
  BY <1>2 DEF ReadSize, DiffLeft, ExtraLeft
<1>4. ReaderIsAtItsPlace'
  BY <1>1, <1>2, <1>3 DEF IInv, ReaderIsAtItsPlace
<1>. QED
  BY <1>1, <1>4, UntouchedSegment DEF IInv

LEMMA EndDataKeeps == ASSUME IInv, EndData PROVE IInv'
<1>1. /\ state \in ReaderStates /\ state' \in ReaderStates
      /\ UNCHANGED <<patch, flash, journal, ongoing_step, shifting, index, segment_pos, chunk, from_offset>>
  BY DEF EndData, ReaderStates, readerVars
<1>2. Here' = Here
  BY <1>1 DEF Here
<1>3. DiffLeft' = DiffLeft /\ ExtraLeft' = ExtraLeft
  BY <1>2 DEF EndData, DiffLeft, ExtraLeft
<1>4. ReaderIsAtItsPlace'
  BY <1>1, <1>2, <1>3 DEF IInv, ReaderIsAtItsPlace
<1>. QED
  BY <1>1, <1>4, UntouchedSegment DEF IInv

\* One cell of a segment is written.
LEMMA SegmentWrite ==
  ASSUME IInv, state \in ReaderStates, state' = state, NEW v,
         UNCHANGED <<patch, journal, ongoing_step, shifting, index>>,
         segment_pos < SegmentSize(index), segment_pos \in Nat,
         segment_pos' = segment_pos + 1,
         MemWrite(ToAddress, v), ~is_step_completed => v = New(ToAddress)
  PROVE  StepIsKnown' /\ RegionIsInOrder' /\ StepIsInOrder' /\ state' # "done"
<1>. DEFINE base == index * segment_size
<1>1. state # "done" /\ state # "shift_copy" /\ state \in SegmentStates
  BY DEF ReaderStates, SegmentStates
<1>2. index \in 0..(to_segments - 1) /\ patch \in Patches
  BY <1>1 DEF IInv, StepIsKnown
<1>3. /\ base \in Nat /\ SegmentSize(index) \in 1..segment_size
      /\ base + SegmentSize(index) <= memory_size /\ memory_size \in Nat
      /\ FromBase(index) \in Nat /\ base + segment_size <= FromBase(index)
      /\ OldEnd \in Nat /\ OldEnd <= memory_size /\ segment_size \in Nat
  BY <1>2, SegmentCellsFit, MoveFits
<1>4. ToAddress = base + segment_pos /\ ToAddress \in Address
  BY <1>3 DEF ToAddress, Address
<1>5. /\ is_step_completed => flash' = flash
      /\ DOMAIN flash' = Address
      /\ \A a : a # ToAddress => flash'[a] = flash[a]
      /\ ~is_step_completed /\ flash[ToAddress] = Erased => flash'[ToAddress] = v
  BY <1>4, Writing
<1>6. is_step_completed' <=> is_step_completed
  BY DEF is_step_completed
<1>7. StepIsKnown'
  BY <1>1, <1>5 DEF IInv, StepIsKnown, ShiftStates, SegmentStates, AtWork, ReaderStates
<1>8. RegionIsInOrder' /\ StepIsInOrder'
  <2>1. CASE is_step_completed
    BY <1>1, <1>5, <1>6, <2>1, UntouchedRegion DEF StepIsInOrder
  <2>2. CASE ~is_step_completed
    <3>1. /\ MovedFrom <= 0 /\ MovedFrom \in Int
          /\ WrittenTo = base /\ KeptFrom = FromBase(index)
      BY <1>1, <2>2, SegmentPlace
    <3>2. MovedFrom' = MovedFrom /\ KeptFrom' = KeptFrom /\ WrittenTo' = WrittenTo
      BY DEF MovedFrom, KeptFrom, WrittenTo
    <3>3. /\ \A a \in 0..(WrittenTo - 1) : flash[a] = New(a)
          /\ \A a \in KeptFrom..(OldEnd - 1) : flash[a] = Old(a - shift_size)
      BY <1>1 DEF IInv, RegionIsInOrder
    <3>4. ASSUME NEW a \in 0..(WrittenTo - 1) PROVE flash'[a] = New(a)
      <4>1. a # ToAddress
        BY <1>3, <1>4, <3>1
      <4>. QED
        BY <1>5, <3>3, <4>1
    <3>5. ASSUME NEW a \in KeptFrom..(OldEnd - 1) PROVE flash'[a] = Old(a - shift_size)
      <4>1. a # ToAddress
        BY <1>3, <1>4, <3>1
      <4>. QED
        BY <1>5, <3>3, <4>1
    <3>6. \A a \in 0..(MovedFrom - 1) : FALSE
      BY <3>1
    <3>7. RegionIsInOrder'
      BY <3>2, <3>4, <3>5, <3>6 DEF RegionIsInOrder
    <3>8. \A c \in 0..(SegmentSize(index) - 1) :
            flash[base + c] = IF c < segment_pos THEN New(base + c) ELSE Erased
      BY <2>2 DEF IInv, StepIsInOrder
    <3>9. flash'[base + segment_pos] = New(base + segment_pos)
      <4>1. segment_pos \in 0..(SegmentSize(index) - 1) /\ ~(segment_pos < segment_pos)
        BY <1>3
      <4>2. flash[base + segment_pos] = Erased
        BY <3>8, <4>1
      <4>. QED
        BY <1>4, <1>5, <2>2, <4>2
    <3>10. ASSUME NEW c \in 0..(SegmentSize(index) - 1)
           PROVE  flash'[base + c] = IF c < segment_pos + 1 THEN New(base + c) ELSE Erased
      <4>1. CASE c = segment_pos
        BY <3>9, <4>1
      <4>2. CASE c # segment_pos
        <5>1. base + c # ToAddress /\ (c < segment_pos + 1 <=> c < segment_pos)
          BY <1>3, <1>4, <4>2
        <5>. QED
          BY <1>5, <3>8, <5>1
      <4>. QED
        BY <4>1, <4>2
    <3>11. StepIsInOrder'
      BY <1>1, <3>10 DEF StepIsInOrder
    <3>. QED
      BY <3>7, <3>11
  <2>. QED
    BY <2>1, <2>2
<1>. QED
  BY <1>1, <1>7, <1>8

LEMMA DiffDataKeeps == ASSUME IInv, DiffData PROVE IInv'
<1>1. /\ state = "diff_data" /\ state' = state /\ state \in ReaderStates
      /\ chunk_size > 0 /\ chunk_size' = chunk_size - 1
      /\ from_offset' = from_offset + 1 /\ segment_pos' = segment_pos + 1
      /\ UNCHANGED <<patch, journal, ongoing_step, shifting, index, chunk>>
      /\ MemWrite(ToAddress, Patched(MemRead(from_offset)))
  BY DEF DiffData, ReaderStates
<1>2. DiffLeft = chunk_size /\ ExtraLeft = Here.extra /\ Here' = Here
      /\ DiffLeft' = chunk_size - 1 /\ ExtraLeft' = Here.extra
  BY <1>1 DEF DiffLeft, ExtraLeft, Here
<1>3. /\ Here.diff \in Nat /\ Here.extra \in Nat /\ chunk_size \in 0..Here.diff
      /\ segment_pos \in Nat /\ from_offset \in Int
      /\ segment_pos + chunk_size + Here.extra <= SegmentSize(index)
      /\ FromBase(index) <= from_offset /\ from_offset < OldEnd
      /\ index \in 0..(to_segments - 1)
  BY <1>1, <1>2, ReaderPlace
<1>4. segment_pos < SegmentSize(index)
  <2>1. SegmentSize(index) \in Int
    BY <1>3, SegmentsFit
  <2>. QED
    BY <1>1, <1>3, <2>1
<1>5. ~is_step_completed => Patched(MemRead(from_offset)) = New(ToAddress)
  <2>. SUFFICES ASSUME ~is_step_completed PROVE Patched(MemRead(from_offset)) = New(ToAddress)
    OBVIOUS
  <2>1. KeptFrom = FromBase(index)
    BY <1>1, SegmentPlace DEF SegmentStates
  <2>2. from_offset \in KeptFrom..(OldEnd - 1)
    BY <1>3, <2>1, MoveFits, SegmentCellsFit
  <2>3. flash[from_offset] = Old(from_offset - shift_size)
    BY <1>1, <2>2 DEF IInv, RegionIsInOrder
  <2>. QED
    BY <2>3 DEF MemRead, Patched
<1>6. StepIsKnown' /\ RegionIsInOrder' /\ StepIsInOrder' /\ state' # "done"
  BY <1>1, <1>3, <1>4, <1>5, SegmentWrite
<1>7. ReaderIsAtItsPlace'
  <2>. DEFINE d == Here.diff
              e == Here.extra
              from == SourceOf(patch, index)[chunk]
              filled == FilledBefore(patch, index)[chunk]
  <2>1. /\ chunk \in 1..Len(patch[index + 1])
        /\ from_offset = from + d - chunk_size
        /\ segment_pos = filled + (d - chunk_size) + (e - e)
    BY <1>1, <1>2, Zenon DEF IInv, ReaderIsAtItsPlace
  <2>2. from \in Int /\ filled \in Int
    BY <1>3, <2>1, ChunkPlaces DEF IInv, StepIsKnown
  <2>3. /\ chunk_size - 1 \in 0..d /\ e \in 0..e
        /\ from_offset' = from + d - (chunk_size - 1)
        /\ segment_pos' = filled + (d - (chunk_size - 1)) + (e - e)
    <3>1. d \in Nat /\ e \in Nat /\ chunk_size \in 0..d
      BY <1>3
    <3>. HIDE DEF d, e, from, filled
    <3>. QED
      BY <1>1, <2>1, <2>2, <3>1
  <2>. QED
    BY <1>1, <1>2, <2>1, <2>3, Zenon DEF ReaderIsAtItsPlace
<1>. QED
  BY <1>6, <1>7 DEF IInv

LEMMA ExtraDataKeeps == ASSUME IInv, ExtraData PROVE IInv'
<1>1. /\ state = "extra_data" /\ state' = state /\ state \in ReaderStates
      /\ chunk_size > 0 /\ chunk_size' = chunk_size - 1
      /\ segment_pos' = segment_pos + 1
      /\ UNCHANGED <<patch, journal, ongoing_step, shifting, index, chunk, from_offset>>
      /\ MemWrite(ToAddress, New(ToAddress))
  BY DEF ExtraData, ReaderStates
<1>2. DiffLeft = 0 /\ ExtraLeft = chunk_size /\ Here' = Here
      /\ DiffLeft' = 0 /\ ExtraLeft' = chunk_size - 1
  BY <1>1 DEF DiffLeft, ExtraLeft, Here
<1>3. /\ Here.diff \in Nat /\ Here.extra \in Nat /\ chunk_size \in 0..Here.extra
      /\ segment_pos \in Nat
      /\ segment_pos + 0 + chunk_size <= SegmentSize(index)
      /\ index \in 0..(to_segments - 1)
  BY <1>1, <1>2, ReaderPlace
<1>4. segment_pos < SegmentSize(index)
  <2>1. SegmentSize(index) \in Int
    BY <1>3, SegmentsFit
  <2>. QED
    BY <1>1, <1>3, <2>1
<1>5. StepIsKnown' /\ RegionIsInOrder' /\ StepIsInOrder' /\ state' # "done"
  BY <1>1, <1>3, <1>4, SegmentWrite
<1>6. ReaderIsAtItsPlace'
  <2>. DEFINE d == Here.diff
              e == Here.extra
              from == SourceOf(patch, index)[chunk]
              filled == FilledBefore(patch, index)[chunk]
  <2>1. /\ chunk \in 1..Len(patch[index + 1]) /\ 0 \in 0..d
        /\ from_offset = from + d - 0
        /\ segment_pos = filled + (d - 0) + (e - chunk_size)
    BY <1>1, <1>2, Zenon DEF IInv, ReaderIsAtItsPlace
  <2>2. from \in Int /\ filled \in Int
    BY <1>3, <2>1, ChunkPlaces DEF IInv, StepIsKnown
  <2>3. /\ chunk_size - 1 \in 0..e
        /\ segment_pos' = filled + (d - 0) + (e - (chunk_size - 1))
    <3>1. d \in Nat /\ e \in Nat /\ chunk_size \in 0..e
      BY <1>3
    <3>. HIDE DEF d, e, from, filled
    <3>. QED
      BY <1>1, <2>1, <2>2, <3>1
  <2>. QED
    BY <1>1, <1>2, <2>1, <2>3, Zenon DEF ReaderIsAtItsPlace
<1>. QED
  BY <1>5, <1>6 DEF IInv

\* Where the data of a chunk end, in the segment and in the image.
LEMMA ChunkEnd ==
  ASSUME IInv, state = "adjustment"
  PROVE  /\ state \in ReaderStates /\ state \in SegmentStates
         /\ index \in 0..(to_segments - 1) /\ patch \in Patches
         /\ chunk \in 1..Len(patch[index + 1])
         /\ segment_pos = FilledBefore(patch, index)[chunk + 1]
         /\ from_offset = SourceOf(patch, index)[chunk] + Here.diff
         /\ ToAddress = to_size => index = to_segments - 1 /\ segment_pos = SegmentSize(index)
         /\ ToAddress # to_size /\ segment_pos = SegmentSize(index) => index < to_segments - 1
<1>1. state \in ReaderStates /\ state \in SegmentStates
  BY DEF ReaderStates, SegmentStates
<1>2. DiffLeft = 0 /\ ExtraLeft = 0
  BY DEF DiffLeft, ExtraLeft
<1>3. /\ index \in 0..(to_segments - 1) /\ patch \in Patches
      /\ chunk \in 1..Len(patch[index + 1])
      /\ segment_pos \in Nat /\ from_offset \in Int
      /\ segment_pos + 0 + 0 = FilledBefore(patch, index)[chunk + 1]
      /\ segment_pos + 0 + 0 <= SegmentSize(index)
      /\ from_offset + 0 = SourceOf(patch, index)[chunk] + Here.diff
  BY <1>1, <1>2, ReaderPlace DEF IInv, ReaderIsAtItsPlace
<1>4. /\ index * segment_size \in Nat /\ SegmentSize(index) \in 1..segment_size
      /\ segment_size \in Nat /\ to_size \in Nat /\ to_segments \in Nat
      /\ index < to_segments - 1 => index * segment_size + segment_size < to_size
      /\ index = to_segments - 1 => index * segment_size + SegmentSize(index) = to_size
  BY <1>3, SegmentsFit, MoveFits
<1>5. ToAddress = index * segment_size + segment_pos
  BY DEF ToAddress
<1>. QED
  BY <1>1, <1>3, <1>4, <1>5

\* The image is complete when its last cell was written (in_place_process_adjustment).
LEMMA LastSegment ==
  ASSUME IInv, state = "adjustment", ToAddress = to_size
  PROVE  ImageComplete
<1>. DEFINE base == index * segment_size
<1>1. /\ state \in ReaderStates /\ state \in SegmentStates /\ state # "done"
      /\ index = to_segments - 1 /\ segment_pos = SegmentSize(index)
      /\ index \in 0..(to_segments - 1)
  BY ChunkEnd
<1>2. ~is_step_completed
  BY <1>1, Sizes DEF IInv, StepIsKnown, is_step_completed
<1>3. WrittenTo = base
  BY <1>1, <1>2, SegmentPlace
<1>4. base \in Nat /\ base + SegmentSize(index) = to_size /\ SegmentSize(index) \in Nat
  BY <1>1, SegmentsFit, MoveFits
<1>5. /\ \A a \in 0..(base - 1) : flash[a] = New(a)
      /\ \A c \in 0..(SegmentSize(index) - 1) : c < segment_pos => flash[base + c] = New(base + c)
  BY <1>1, <1>2, <1>3 DEF IInv, RegionIsInOrder, StepIsInOrder
<1>6. ASSUME NEW a \in 0..(to_size - 1) PROVE flash[a] = New(a)
  <2>1. CASE a < base
    BY <1>4, <1>5, <2>1
  <2>2. CASE ~(a < base)
    <3>1. /\ a - base \in 0..(SegmentSize(index) - 1) /\ a - base < segment_pos
          /\ base + (a - base) = a
      BY <1>1, <1>4, <2>2
    <3>. QED
      BY <1>5, <3>1
  <2>. QED
    BY <2>1, <2>2
<1>. QED
  BY <1>6 DEF ImageComplete

LEMMA EndImageKeeps == ASSUME IInv, EndImage PROVE IInv'
<1>1. /\ state = "adjustment" /\ ToAddress = to_size /\ journal' = 0 /\ state' = "done"
      /\ UNCHANGED <<patch, flash>>
  BY DEF EndImage, all_steps_completed
<1>2. ImageComplete'
  BY <1>1, LastSegment DEF ImageComplete
<1>3. StepIsKnown'
  BY <1>1, Sizes DEF IInv, StepIsKnown, AtWork, ShiftStates, SegmentStates, ReaderStates
<1>4. ReaderIsAtItsPlace' /\ RegionIsInOrder' /\ StepIsInOrder'
  BY <1>1 DEF ReaderIsAtItsPlace, RegionIsInOrder, StepIsInOrder, ReaderStates
<1>. QED
  BY <1>1, <1>2, <1>3, <1>4 DEF IInv

LEMMA EndChunkKeeps == ASSUME IInv, EndChunk PROVE IInv'
<1>1. /\ state = "adjustment" /\ state' = "diff_size" /\ state' \in ReaderStates
      /\ segment_pos # SegmentSize(index)
      /\ from_offset' = from_offset + Here.adjust /\ chunk' = chunk + 1
      /\ UNCHANGED <<patch, flash, journal, ongoing_step, shifting, index, segment_pos>>
  BY DEF EndChunk, ReaderStates
<1>2. /\ state \in ReaderStates /\ index \in 0..(to_segments - 1) /\ patch \in Patches
      /\ chunk \in 1..Len(patch[index + 1])
      /\ segment_pos = FilledBefore(patch, index)[chunk + 1]
      /\ from_offset = SourceOf(patch, index)[chunk] + Here.diff
  BY <1>1, ChunkEnd
<1>3. StepIsKnown' /\ RegionIsInOrder' /\ StepIsInOrder' /\ state' # "done"
  BY <1>1, <1>2, UntouchedSegment
<1>4. /\ Len(patch[index + 1]) \in Nat
      /\ chunk = Len(patch[index + 1]) => FilledBefore(patch, index)[chunk + 1] = SegmentSize(index)
      /\ SourceOf(patch, index)[chunk + 1] =
           SourceOf(patch, index)[chunk] + Here.diff + Here.adjust
  BY <1>2, ChunkPlaces DEF Here
<1>5. chunk + 1 \in 1..Len(patch[index + 1])
  BY <1>1, <1>2, <1>4
<1>. DEFINE d == patch[index + 1][chunk + 1].diff
            e == patch[index + 1][chunk + 1].extra
            from == SourceOf(patch, index)[chunk + 1]
            filled == FilledBefore(patch, index)[chunk + 1]
<1>6. d \in Nat /\ e \in Nat /\ from \in Int /\ filled \in Nat
  BY <1>2, <1>5, ChunkPlaces
<1>7. Here'.diff = d /\ Here'.extra = e /\ DiffLeft' = d /\ ExtraLeft' = e
  BY <1>1 DEF Here, DiffLeft, ExtraLeft
<1>8. /\ d \in 0..d /\ e \in 0..e
      /\ from_offset' = from + d - d
      /\ segment_pos' = filled + (d - d) + (e - e)
  <2>1. from_offset' = from /\ segment_pos' = filled
    BY <1>1, <1>2, <1>4
  <2>. HIDE DEF d, e, from, filled
  <2>. QED
    BY <1>6, <2>1
<1>9. ReaderIsAtItsPlace'
  BY <1>1, <1>5, <1>7, <1>8, Zenon DEF ReaderIsAtItsPlace
<1>. QED
  BY <1>3, <1>9 DEF IInv

LEMMA EndSegmentKeeps == ASSUME IInv, EndSegment PROVE IInv'
<1>. DEFINE base == index * segment_size
<1>1. /\ state = "adjustment" /\ ToAddress # to_size /\ segment_pos = SegmentSize(index)
      /\ index' = index + 1 /\ state' = "dfpatch_size" /\ state # "done"
      /\ UNCHANGED <<patch, flash, shifting>>
      /\ ongoing_step' = ongoing_step + 1
      /\ journal' = IF is_step_completed THEN journal ELSE ongoing_step
  BY DEF EndSegment, NextStep
<1>2. /\ state \in ReaderStates /\ state \in SegmentStates
      /\ index \in 0..(to_segments - 1) /\ index < to_segments - 1
  BY <1>1, ChunkEnd
<1>3. /\ ongoing_step = number_of_segments + index + 1
      /\ ongoing_step - 1 <= journal /\ journal \in 0..(Steps - 1)
      /\ patch \in Patches /\ DOMAIN flash = Address
  BY <1>2 DEF IInv, StepIsKnown, AtWork
<1>4. StepIsKnown'
  <2>1. /\ journal' \in 0..(Steps - 1) /\ ongoing_step' - 1 <= journal'
        /\ index + 1 \in 0..(to_segments - 1)
        /\ ongoing_step' = number_of_segments + (index + 1) + 1
    BY <1>1, <1>2, <1>3, Sizes DEF is_step_completed
  <2>. QED
    BY <1>1, <1>3, <2>1 DEF StepIsKnown, ShiftStates, SegmentStates, AtWork, ReaderStates
<1>5. ReaderIsAtItsPlace' /\ StepIsInOrder' /\ state' # "done"
  BY <1>1 DEF ReaderIsAtItsPlace, StepIsInOrder, ReaderStates
<1>6. RegionIsInOrder'
  <2>1. CASE is_step_completed
    BY <1>1, <2>1, UntouchedRegion
  <2>2. CASE ~is_step_completed
    <3>1. /\ KeptFrom = FromBase(index) /\ WrittenTo = base
          /\ journal = number_of_segments + index
      BY <1>2, <2>2, SegmentPlace
    <3>2. journal' = number_of_segments + (index + 1)
      BY <1>1, <1>2, <1>3, <2>2, Sizes
    <3>3. /\ base \in Nat /\ SegmentSize(index) = segment_size /\ segment_size \in Nat
          /\ FromBase(index) \in Nat /\ OldEnd \in Nat
          /\ (index + 1) * segment_size = base + segment_size
      BY <1>2, SegmentsFit, SegmentCellsFit, MoveFits, Multiples
    <3>4. journal' - number_of_segments = index + 1 /\ number_of_segments - journal' = -(index + 1)
          /\ ~(journal' < number_of_segments)
      BY <1>2, <3>2, Sizes
    <3>5. WrittenTo' = base + segment_size
      BY <3>3, <3>4 DEF WrittenTo
    <3>6. KeptFrom' = FromBase(index + 1)
      <4>1. KeptFrom' = FromBase(journal' - number_of_segments)
        BY <3>4, Zenon DEF KeptFrom
      <4>. QED
        BY <3>4, <4>1, Zenon
    <3>7. FromBase(index) <= FromBase(index + 1) /\ FromBase(index + 1) \in Int
      <4>1. index + 1 \in 0..(to_segments - 1) /\ index <= index + 1
        BY <1>2, Sizes
      <4>. QED
        BY <1>2, <4>1, FromBaseGrows
    <3>8. ASSUME NEW a \in 0..(MovedFrom' - 1) PROVE FALSE
      <4>1. -(index + 1) \in Int /\ 0 \in Int /\ -(index + 1) <= 0 /\ segment_size \in Nat
        BY <1>2, <3>3, Sizes
      <4>2. (-(index + 1)) * segment_size <= 0 * segment_size /\ 0 * segment_size = 0
            /\ (-(index + 1)) * segment_size \in Int
        BY <4>1, Multiples
      <4>3. MovedFrom' = (-(index + 1)) * segment_size
        BY <3>4 DEF MovedFrom
      <4>. DEFINE m == MovedFrom'
      <4>4. m <= 0 /\ m \in Int /\ a \in 0..(m - 1)
        BY <4>2, <4>3
      <4>. HIDE DEF m
      <4>. QED
        BY <4>4
    <3>9. /\ \A a \in 0..(base - 1) : flash[a] = New(a)
          /\ \A a \in FromBase(index)..(OldEnd - 1) : flash[a] = Old(a - shift_size)
          /\ \A c \in 0..(SegmentSize(index) - 1) : c < segment_pos => flash[base + c] = New(base + c)
      BY <1>1, <1>2, <2>2, <3>1 DEF IInv, RegionIsInOrder, StepIsInOrder
    <3>10. ASSUME NEW a \in 0..(base + segment_size - 1) PROVE flash[a] = New(a)
      <4>1. CASE a < base
        BY <3>3, <3>9, <4>1
      <4>2. CASE ~(a < base)
        <5>1. /\ a - base \in 0..(SegmentSize(index) - 1) /\ a - base < segment_pos
              /\ base + (a - base) = a
          BY <1>1, <3>3, <4>2
        <5>. QED
          BY <3>9, <5>1
      <4>. QED
        BY <4>1, <4>2
    <3>11. \A a \in FromBase(index + 1)..(OldEnd - 1) : flash[a] = Old(a - shift_size)
      BY <3>3, <3>7, <3>9
    <3>12. flash' = flash
      BY <1>1
    <3>13. \A a \in 0..(MovedFrom' - 1) : a < from_size => flash'[a] = Old(a)
      BY <3>8, Zenon
    <3>14. \A a \in KeptFrom'..(OldEnd - 1) : flash'[a] = Old(a - shift_size)
      BY <3>6, <3>11, <3>12, Zenon
    <3>15. ASSUME NEW a \in 0..(WrittenTo' - 1) PROVE flash'[a] = New(a)
      <4>. DEFINE w == WrittenTo'
      <4>1. a \in 0..(base + segment_size - 1)
        <5>1. a \in 0..(w - 1) /\ w = base + segment_size
          BY <3>5
        <5>. HIDE DEF w
        <5>. QED
          BY <3>3, <5>1
      <4>2. flash[a] = New(a)
        BY <3>10, <4>1
      <4>. QED
        BY <3>12, <4>2
    <3>. QED
      BY <3>13, <3>14, <3>15, Zenon DEF RegionIsInOrder
  <2>. QED
    BY <2>1, <2>2
<1>. QED
  BY <1>4, <1>5, <1>6 DEF IInv

\* What a cut may tear belongs to the step under way and to nothing that was moved,
\* kept or written before it, nor to what is still to be moved.
LEMMA TornCells ==
  ASSUME IInv, NEW a \in Torn
  PROVE  ~(a \in 0..(MovedFrom - 1)) /\ ~(a \in KeptFrom..(OldEnd - 1)) /\ ~(a \in 0..(WrittenTo - 1))
<1>1. ~is_step_completed
  BY DEF Torn
<1>2. CASE state = "shift_erase" \/ (state = "shift_copy" /\ shifting.cell < segment_size)
  <2>1. state \in ShiftStates
    BY <1>2 DEF ShiftStates
  <2>2. /\ WriteAddress \in Nat /\ ReadAddress + segment_size <= WriteAddress /\ ReadAddress \in Nat
        /\ shifting.cell \in 0..segment_size /\ segment_size \in Nat /\ OldEnd \in Nat
    BY <2>1, ShiftCells, MoveFits
  <2>3. /\ MovedFrom = ReadAddress + segment_size /\ KeptFrom = WriteAddress + segment_size
        /\ WrittenTo <= 0 /\ WrittenTo \in Int
    BY <1>1, <2>1, ShiftPlace
  <2>4. a \in WriteAddress..(WriteAddress + segment_size - 1)
    <3>1. CASE state = "shift_erase"
      BY <1>1, <3>1 DEF Torn
    <3>2. CASE state = "shift_copy" /\ shifting.cell < segment_size
      <4>1. a = WriteAddress + shifting.cell
        BY <1>1, <3>2 DEF Torn
      <4>. QED
        BY <2>2, <3>2, <4>1
    <3>. QED
      BY <1>2, <3>1, <3>2
  <2>. QED
    BY <2>2, <2>3, <2>4
<1>3. CASE state = "dfpatch_size" \/ (state \in {"diff_data", "extra_data"} /\ chunk_size > 0)
  <2>1. state \in SegmentStates
    BY <1>3 DEF SegmentStates, ReaderStates
  <2>2. index \in 0..(to_segments - 1)
    BY <2>1 DEF IInv, StepIsKnown
  <2>. DEFINE base == index * segment_size
  <2>3. /\ base \in Nat /\ SegmentSize(index) \in 1..segment_size /\ segment_size \in Nat
        /\ FromBase(index) \in Nat /\ base + segment_size <= FromBase(index) /\ OldEnd \in Nat
    BY <2>2, SegmentCellsFit, MoveFits
  <2>4. /\ MovedFrom <= 0 /\ MovedFrom \in Int /\ WrittenTo = base /\ KeptFrom = FromBase(index)
    BY <1>1, <2>1, SegmentPlace
  <2>5. a \in base..(base + SegmentSize(index) - 1)
    <3>1. CASE state = "dfpatch_size"
      <4>1. a \in SegmentCells(index)
        BY <1>1, <3>1 DEF Torn
      <4>2. PICK c \in 0..(SegmentSize(index) - 1) : a = base + c
        BY <4>1 DEF SegmentCells
      <4>. QED
        BY <2>3, <4>2
    <3>2. CASE state \in {"diff_data", "extra_data"} /\ chunk_size > 0
      <4>1. a = base + segment_pos
        BY <1>1, <3>2 DEF Torn, ToAddress
      <4>2. state \in ReaderStates
        BY <3>2 DEF ReaderStates
      <4>3. /\ Here.diff \in Nat /\ Here.extra \in Nat
            /\ DiffLeft \in 0..Here.diff /\ ExtraLeft \in 0..Here.extra
            /\ segment_pos \in Nat
            /\ segment_pos + DiffLeft + ExtraLeft <= SegmentSize(index)
        BY <4>2, ReaderPlace
      <4>4. DiffLeft = chunk_size \/ ExtraLeft = chunk_size
        BY <3>2 DEF DiffLeft, ExtraLeft
      <4>5. segment_pos < SegmentSize(index)
        <5>1. /\ DiffLeft \in Nat /\ ExtraLeft \in Nat /\ (DiffLeft > 0 \/ ExtraLeft > 0)
              /\ SegmentSize(index) \in Nat
          BY <2>3, <3>2, <4>3, <4>4
        <5>. QED
          BY <4>3, <5>1
      <4>. QED
        BY <2>3, <4>1, <4>3, <4>5
    <3>. QED
      BY <1>3, <3>1, <3>2
  <2>. QED
    BY <2>3, <2>4, <2>5
<1>. QED
  BY <1>1, <1>2, <1>3 DEF Torn

\* What the journaled steps moved, kept and wrote is in the region.
LEMMA RegionBounds ==
  ASSUME IInv
  PROVE  /\ 0..(MovedFrom - 1) \subseteq Address /\ KeptFrom..(OldEnd - 1) \subseteq Address
         /\ 0..(WrittenTo - 1) \subseteq Address
<1>. DEFINE n == number_of_segments
            j == journal
<1>1. /\ j \in Int /\ n \in Int /\ n - j \in Int /\ j - n \in Int /\ to_segments \in Int
      /\ 0 <= j /\ j - n <= to_segments - 1 /\ n - j <= n
      /\ segment_size \in Nat /\ 0 \in Int
  BY Sizes, MoveFits DEF IInv, StepIsKnown
<1>2. /\ (n - j) * segment_size <= n * segment_size /\ (n - j) * segment_size \in Int
      /\ (j - n) * segment_size <= (to_segments - 1) * segment_size /\ (j - n) * segment_size \in Int
      /\ j < n => 0 <= (n - j) * segment_size
  <2>. HIDE DEF n, j
  <2>1. j < n => 0 * segment_size <= (n - j) * segment_size
    BY <1>1, Multiples
  <2>2. 0 * segment_size = 0
    BY <1>1, Multiples
  <2>3. to_segments - 1 \in Int
    BY <1>1
  <2>. QED
    BY <1>1, <2>1, <2>2, <2>3, Multiples
<1>3. /\ MovedFrom \in Int /\ MovedFrom <= n * segment_size
      /\ WrittenTo \in Int /\ WrittenTo <= (to_segments - 1) * segment_size
      /\ j < n => 0 <= MovedFrom
  BY <1>2 DEF MovedFrom, WrittenTo
<1>4. /\ n * segment_size \in Nat /\ n * segment_size <= memory_size /\ memory_size \in Nat
      /\ OldEnd \in Nat /\ OldEnd <= memory_size /\ shift_size \in Nat
  BY MoveFits
<1>5. (to_segments - 1) * segment_size \in Nat /\ (to_segments - 1) * segment_size <= memory_size
  <2>1. to_segments - 1 \in 0..(to_segments - 1)
    BY Sizes
  <2>. QED
    BY <1>4, <2>1, SegmentCellsFit
<1>6. KeptFrom \in Nat
  <2>1. CASE j < n
    BY <1>3, <1>4, <2>1 DEF KeptFrom
  <2>2. CASE ~(j < n)
    <3>1. j - n \in 0..(to_segments - 1)
      BY <1>1, <2>2
    <3>2. FromBase(j - n) \in Nat
      <4>. HIDE DEF n, j
      <4>. QED
        BY <3>1, SegmentCellsFit
    <3>. QED
      BY <2>2, <3>2 DEF KeptFrom
  <2>. QED
    BY <2>1, <2>2
<1>. QED
  BY <1>3, <1>4, <1>5, <1>6 DEF Address

LEMMA CutKeeps == ASSUME IInv, Cut PROVE IInv'
<1>1. /\ state # "done" /\ state' = "init" /\ UNCHANGED <<patch, journal>>
      /\ flash' = flash \/ flash' = [a \in Address |-> IF a \in Torn THEN Garbage ELSE flash[a]]
  BY DEF Cut
<1>2. DOMAIN flash = Address
  BY DEF IInv, StepIsKnown
<1>3. DOMAIN flash' = Address /\ \A a \in Address : a \notin Torn => flash'[a] = flash[a]
  BY <1>1, <1>2
<1>4. StepIsKnown'
  BY <1>1, <1>3 DEF IInv, StepIsKnown, ShiftStates, SegmentStates, AtWork, ReaderStates
<1>5. ReaderIsAtItsPlace' /\ StepIsInOrder' /\ state' # "done"
  BY <1>1 DEF ReaderIsAtItsPlace, StepIsInOrder, ReaderStates
<1>6. RegionIsInOrder'
  <2>1. MovedFrom' = MovedFrom /\ KeptFrom' = KeptFrom /\ WrittenTo' = WrittenTo
    BY <1>1 DEF MovedFrom, KeptFrom, WrittenTo
  <2>2. CASE flash' = flash
    BY <1>1, <2>2, UntouchedRegion
  <2>3. CASE flash' # flash
    <3>1. /\ \A a \in 0..(MovedFrom - 1) : a < from_size => flash[a] = Old(a)
          /\ \A a \in KeptFrom..(OldEnd - 1) : flash[a] = Old(a - shift_size)
          /\ \A a \in 0..(WrittenTo - 1) : flash[a] = New(a)
      BY <1>1 DEF IInv, RegionIsInOrder
    <3>2. /\ 0..(MovedFrom - 1) \subseteq Address /\ KeptFrom..(OldEnd - 1) \subseteq Address
          /\ 0..(WrittenTo - 1) \subseteq Address
      BY RegionBounds
    <3>. QED
      BY <1>3, <2>1, <3>1, <3>2, TornCells DEF RegionIsInOrder
  <2>. QED
    BY <2>2, <2>3
<1>. QED
  BY <1>4, <1>5, <1>6 DEF IInv

LEMMA NextIInv == IInv /\ [Next]_vars => IInv'
<1>. SUFFICES ASSUME IInv, [Next]_vars PROVE IInv'
  OBVIOUS
<1>1. CASE Step
  BY <1>1, ReadHeaderKeeps, ShiftEraseKeeps, ShiftCopyKeeps, ShiftNextKeeps,
     BeginSegmentKeeps, ReadSizeKeeps, EndDataKeeps, DiffDataKeeps, ExtraDataKeeps,
     EndImageKeeps, EndSegmentKeeps, EndChunkKeeps DEF Step
<1>2. CASE Cut
  BY <1>2, CutKeeps
<1>3. CASE UNCHANGED vars
  <2>1. StepIsKnown' /\ ReaderIsAtItsPlace'
    BY <1>3 DEF IInv, vars, readerVars, StepIsKnown, ReaderIsAtItsPlace, DiffLeft, ExtraLeft, Here
  <2>2. RegionIsInOrder' /\ StepIsInOrder'
    BY <1>3 DEF IInv, vars, readerVars, RegionIsInOrder, StepIsInOrder, MovedFrom, WrittenTo, KeptFrom,
                is_step_completed, ReadAddress, WriteAddress
  <2>3. (state = "done" => journal = 0 /\ ImageComplete)'
    BY <1>3 DEF IInv, vars, ImageComplete
  <2>. QED
    BY <2>1, <2>2, <2>3 DEF IInv
<1>. QED
  BY <1>1, <1>2, <1>3 DEF Next

-----------------------------------------------------------------------------
(* What the apply promises.                                                  *)

\* The region, the journal, the reader and the step under way stay in order, for
\* every geometry and every sound patch, wherever the run is cut (detools.c, the
\* in-place part).
THEOREM InPlaceInvariant == Spec => []IInv
BY InitIInv, NextIInv, PTL DEF Spec

\* What the steps that are not journaled read is where they will look for it: a cut
\* or repeated step spoils no later one, nor itself (in_place_shift_memory,
\* in_place_process_dfpatch_size).
THEOREM SourcesStayIntact == Spec => []SourcesIntact
<1>1. ASSUME IInv PROVE SourcesIntact
  <2>. SUFFICES ASSUME state # "done"
       PROVE  /\ \A k \in 0..(number_of_segments - 1) :
                   number_of_segments - k > journal =>
                     \A a \in (k * segment_size)..((k + 1) * segment_size - 1) :
                       a < from_size => flash[a] = Old(a)
              /\ journal >= number_of_segments =>
                   \A i \in 0..(to_segments - 1) :
                     number_of_segments + i + 1 > journal =>
                       \A a \in Sources(patch, i) : flash[a] = Old(a - shift_size)
    BY DEF SourcesIntact
  <2>1. /\ \A a \in 0..(MovedFrom - 1) : a < from_size => flash[a] = Old(a)
        /\ \A a \in KeptFrom..(OldEnd - 1) : flash[a] = Old(a - shift_size)
        /\ journal \in Nat /\ patch \in Patches
    BY <1>1, Sizes DEF IInv, RegionIsInOrder, StepIsKnown
  <2>2. ASSUME NEW k \in 0..(number_of_segments - 1), number_of_segments - k > journal,
               NEW a \in (k * segment_size)..((k + 1) * segment_size - 1)
        PROVE  a \in 0..(MovedFrom - 1)
    <3>1. /\ k \in Int /\ 0 \in Int /\ k + 1 \in Int /\ number_of_segments - journal \in Int
          /\ 0 <= k /\ k + 1 <= number_of_segments - journal /\ segment_size \in Nat
      BY <2>1, <2>2, Sizes, MoveFits
    <3>2. /\ 0 * segment_size <= k * segment_size /\ 0 * segment_size = 0
          /\ (k + 1) * segment_size <= (number_of_segments - journal) * segment_size
          /\ k * segment_size \in Int /\ (k + 1) * segment_size \in Int
          /\ (number_of_segments - journal) * segment_size \in Int
      BY <3>1, Multiples
    <3>. QED
      BY <3>2 DEF MovedFrom
  <2>3. ASSUME journal >= number_of_segments, NEW i \in 0..(to_segments - 1),
               number_of_segments + i + 1 > journal, NEW a \in Sources(patch, i)
        PROVE  a \in KeptFrom..(OldEnd - 1)
    <3>1. a \in Int /\ FromBase(i) <= a /\ a < OldEnd
      <4>1. PICK c \in 1..Len(patch[i + 1]) :
              a \in SourceOf(patch, i)[c]..(SourceOf(patch, i)[c] + patch[i + 1][c].diff - 1)
        BY <2>3, Zenon DEF Sources
      <4>2. SoundPatch(patch)
        BY <2>1, PatchesAssumption
      <4>. QED
        BY <2>3, <4>1, <4>2 DEF SoundPatch
    <3>2. journal - number_of_segments \in 0..(to_segments - 1) /\ journal - number_of_segments <= i
          /\ ~(journal < number_of_segments)
      BY <2>1, <2>3, Sizes
    <3>3. KeptFrom = FromBase(journal - number_of_segments)
      BY <3>2 DEF KeptFrom
    <3>4. FromBase(journal - number_of_segments) <= FromBase(i)
          /\ FromBase(journal - number_of_segments) \in Int /\ FromBase(i) \in Int
      BY <3>2, FromBaseGrows
    <3>. QED
      BY <3>1, <3>3, <3>4, MoveFits
  <2>. QED
    BY <2>1, <2>2, <2>3
<1>. QED
  BY <1>1, InPlaceInvariant, PTL

\* A journaled segment of the new image is there and stays there (in_place_mem_write
\* and in_place_mem_erase of a completed step).
THEOREM JournaledStaysWritten == Spec => []JournaledIsWritten
<1>1. ASSUME IInv PROVE JournaledIsWritten
  <2>. SUFFICES ASSUME NEW i \in 0..(to_segments - 1), journal >= number_of_segments + i + 1,
                       NEW a \in SegmentCells(i)
                PROVE  flash[a] = New(a)
    BY DEF JournaledIsWritten
  <2>2. CASE state = "done"
    BY <1>1, <2>2, Sizes DEF IInv
  <2>3. CASE state # "done"
    <3>1. PICK c \in 0..(SegmentSize(i) - 1) : a = i * segment_size + c
      BY DEF SegmentCells
    <3>2. /\ i * segment_size \in Nat /\ SegmentSize(i) \in 1..segment_size /\ segment_size \in Nat
      BY SegmentCellsFit, MoveFits
    <3>3. i * segment_size + segment_size <= (journal - number_of_segments) * segment_size
          /\ (journal - number_of_segments) * segment_size \in Int
      <4>1. i \in Int /\ journal - number_of_segments \in Int /\ i < journal - number_of_segments
        BY <1>1, Sizes DEF IInv, StepIsKnown
      <4>. QED
        BY <3>2, <4>1, Multiples
    <3>4. a \in 0..(WrittenTo - 1)
      BY <3>1, <3>2, <3>3 DEF WrittenTo
    <3>. QED
      BY <1>1, <2>3, <3>4 DEF IInv, RegionIsInOrder
  <2>. QED
    BY <2>2, <2>3
<1>. QED
  BY <1>1, InPlaceInvariant, PTL

\* Success is reported for the new image and nothing else, however often the run was
\* cut short (detools_apply.h:55).
THEOREM InPlaceDoneIsTarget == Spec => []DoneIsTarget
<1>1. IInv => DoneIsTarget
  BY DEF IInv, DoneIsTarget
<1>. QED
  BY <1>1, InPlaceInvariant, PTL

\* The journal goes forward one step at a time, and back to zero only with the image
\* complete (detools_apply.h:67).
THEOREM JournalGoesForward == Spec => JournalForward
<1>1. ASSUME IInv, [Next]_vars
      PROVE  [journal' \in {journal, journal + 1} \/ (journal' = 0 /\ ImageComplete)]_vars
  <2>1. journal \in Nat
    BY <1>1, Sizes DEF IInv, StepIsKnown
  <2>2. CASE ShiftNext \/ EndSegment
    <3>1. journal' = IF is_step_completed THEN journal ELSE ongoing_step
      BY <2>2 DEF ShiftNext, EndSegment, NextStep
    <3>2. ongoing_step \in Int /\ ongoing_step - 1 <= journal
      <4>1. CASE ShiftNext
        <5>1. state \in ShiftStates
          BY <4>1 DEF ShiftNext, ShiftStates
        <5>. QED
          BY <1>1, <5>1, ShiftCells, Sizes DEF IInv, StepIsKnown, AtWork
      <4>2. CASE EndSegment
        <5>1. state \in SegmentStates
          BY <4>2 DEF EndSegment, SegmentStates, ReaderStates
        <5>. QED
          BY <1>1, <5>1, Sizes DEF IInv, StepIsKnown, AtWork
      <4>. QED
        BY <2>2, <4>1, <4>2
    <3>3. CASE is_step_completed
      BY <3>1, <3>3
    <3>4. CASE ~is_step_completed
      <4>1. ongoing_step = journal + 1
        BY <2>1, <3>2, <3>4 DEF is_step_completed
      <4>. QED
        BY <3>1, <3>4, <4>1
    <3>. QED
      BY <3>3, <3>4
  <2>3. CASE EndImage
    BY <1>1, <2>3, LastSegment DEF EndImage, all_steps_completed
  <2>4. CASE journal' = journal
    BY <2>1, <2>4
  <2>5. ShiftNext \/ EndSegment \/ EndImage \/ journal' = journal
    BY <1>1 DEF Next, Step, Cut, ReadHeader, ShiftErase, ShiftCopy, BeginSegment, ReadSize,
                EndData, DiffData, ExtraData, EndChunk, vars
  <2>. QED
    BY <2>2, <2>3, <2>4, <2>5
<1>. QED
  BY <1>1, InPlaceInvariant, PTL DEF Spec, JournalForward
=============================================================================
