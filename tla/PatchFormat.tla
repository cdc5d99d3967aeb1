----------------------------- MODULE PatchFormat -----------------------------
(***************************************************************************)
(* The patches detools writes, as detools_apply is meant to read them.     *)
(* A layout of a patch says where in it everything lies:                   *)
(*   whole   the bytes of the patch                                        *)
(*   header  how many of them are its type, its compression and its size   *)
(*   stream  the bytes it decompresses to                                  *)
(*   runs    where the runs of CRLE lie in the patch and in the stream     *)
(*   parts   where the sizes and the data of each part lie in the stream,  *)
(*           and in the base and the image what they are about             *)
(* A place is the number of bytes before it.                               *)
(***************************************************************************)
EXTENDS SequentialApply

Byte == 0..255

-----------------------------------------------------------------------------
(* Numbers: seven bits a byte, the least first; four bytes are as many as    *)
(* is_overflow lets pass.  A size has six bits and a sign in its first byte. *)

Seven(b) == b % 128
Six(b) == b % 64
Digit(s, place, n, k) == IF k <= n THEN Seven(s[place + k]) ELSE 0
Usize(s, place, n) ==
  Digit(s, place, n, 1)
    + 128 * (Digit(s, place, n, 2) + 128 * (Digit(s, place, n, 3) + 128 * Digit(s, place, n, 4)))
Magnitude(s, place, n) ==
  Six(s[place + 1])
    + 64 * (Digit(s, place, n, 2) + 128 * (Digit(s, place, n, 3) + 128 * Digit(s, place, n, 4)))
Negative(s, place) == (s[place + 1] \div 64) % 2 = 1

\* The bytes between two places are one number.
IsNumber(s, place, end) ==
  /\ place \in 0..Len(s) /\ end \in 0..Len(s) /\ end - place \in 1..4
  /\ \A k \in 1..(end - place) : More(s[place + k]) <=> k < end - place
IsUsize(s, place, end, v) == IsNumber(s, place, end) /\ v = Usize(s, place, end - place)
IsSize(s, place, end, v) ==
  /\ IsNumber(s, place, end)
  /\ v = IF Negative(s, place) THEN -Magnitude(s, place, end - place)
                               ELSE Magnitude(s, place, end - place)

-----------------------------------------------------------------------------
(* Compression.  A run of CRLE has a head, which tells whether its bytes     *)
(* follow or are one byte repeated, and how many they are.                   *)

Run == [place : Nat, data : Nat, end : Nat, from : Nat, to : Nat]

IsRun(L, r) ==
  /\ r.end <= Len(L.whole) /\ r.from < r.to /\ r.to <= Len(L.stream)
  /\ IsUsize(L.whole, r.place + 1, r.data, r.to - r.from)
  /\ \/ /\ L.whole[r.place + 1] = 0 /\ r.end = r.data + (r.to - r.from)
        /\ \A k \in 1..(r.to - r.from) : L.stream[r.from + k] = L.whole[r.data + k]
     \/ /\ L.whole[r.place + 1] = 1 /\ r.end = r.data + 1
        /\ \A k \in 1..(r.to - r.from) : L.stream[r.from + k] = L.whole[r.end]

IsRuns(L) ==
  LET m == Len(L.runs) IN
  /\ L.runs \in Seq(Run) /\ m > 0
  /\ \A j \in 1..m : IsRun(L, L.runs[j])
  /\ L.runs[1].place = L.header /\ L.runs[1].from = 0
  /\ \A j \in 1..(m - 1) : L.runs[j + 1].place = L.runs[j].end /\ L.runs[j + 1].from = L.runs[j].to
  /\ L.runs[m].end = Len(L.whole) /\ L.runs[m].to = Len(L.stream)

IsPlain(L) ==
  /\ Len(L.whole) = L.header + Len(L.stream)
  /\ \A k \in 1..Len(L.stream) : L.stream[k] = L.whole[L.header + k]

-----------------------------------------------------------------------------
(* Parts.  The fields of one are the places in the stream where the decoder  *)
(* is in the state of that name; base and to are the offsets in the base and *)
(* in the image where the part begins, next is where the base goes on.       *)

Part == [diff_size : Nat, diff_data : Nat, extra_size : Nat, extra_data : Nat, adjustment : Nat,
         end : Nat, base : Nat, to : Nat, next : Nat]

Diff(p) == p.extra_size - p.diff_data
Extra(p) == p.adjustment - p.extra_data

IsPart(L, image, p) ==
  /\ p.diff_data <= p.extra_size /\ p.extra_data <= p.adjustment /\ p.end <= Len(L.stream)
  /\ p.to + Diff(p) + Extra(p) <= Len(image)
  /\ IsSize(L.stream, p.diff_size, p.diff_data, Diff(p))
  /\ \A k \in 1..Diff(p) : image[p.to + k] = (L.stream[p.diff_data + k] + Base[p.base + k]) % 256
  /\ IsSize(L.stream, p.extra_size, p.extra_data, Extra(p))
  /\ \A k \in 1..Extra(p) : image[p.to + Diff(p) + k] = L.stream[p.extra_data + k]
  /\ IsSize(L.stream, p.adjustment, p.end, p.next - (p.base + Diff(p)))

\* After the byte of an empty dfpatch, the parts fill the image; it is full with the last.
IsParts(L, image) ==
  LET n == Len(L.parts) IN
  /\ L.parts \in Seq(Part) /\ n > 0
  /\ \A i \in 1..n : IsPart(L, image, L.parts[i])
  /\ L.stream[1] = 0
  /\ L.parts[1].diff_size = 1 /\ L.parts[1].base = 0 /\ L.parts[1].to = 0
  /\ \A i \in 1..(n - 1) :
       LET p == L.parts[i]
           q == L.parts[i + 1]
       IN  /\ q.diff_size = p.end /\ q.base = p.next
           /\ q.to = p.to + Diff(p) + Extra(p) /\ q.to < Len(image)
  /\ LET p == L.parts[n]
     IN  p.end = Len(L.stream) /\ p.to + Diff(p) + Extra(p) = Len(image)

-----------------------------------------------------------------------------
IsLayout(L, image) ==
  /\ L.whole \in Seq(Byte) /\ L.stream \in Seq(Byte) /\ L.header \in Nat
  /\ Len(L.whole) > 0 /\ L.whole[1] \in {0, 2}
  /\ IsSize(L.whole, 1, L.header, Len(image))
  /\ IF image = <<>> THEN Len(L.whole) = L.header
     ELSE IsParts(L, image) /\ (IF L.whole[1] = 2 THEN IsRuns(L) ELSE IsPlain(L))

\* The update is a patch of this layout, or is cut short or followed by other bytes;
\* only the uncompressed reader counts what follows.
WrittenAs(u, L) ==
  /\ u.image \in Seq(Byte) /\ u.patch \in Seq(Byte) /\ IsLayout(L, u.image)
  /\ \A k \in 1..Least(Len(u.patch), Len(L.whole)) : u.patch[k] = L.whole[k]
  /\ u.sound <=> \/ Len(u.patch) = Len(L.whole)
                 \/ Len(u.patch) > Len(L.whole) /\ L.whole[1] = 2

\* detools wrote the patch.
Written(u) == \E L : WrittenAs(u, L)
=============================================================================
