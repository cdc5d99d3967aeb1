-------------------------- MODULE MCInPlaceApply --------------------------
(***************************************************************************)
(* A region of six two-cell segments, an old image of seven cells moved up *)
(* by one segment, a new one of nine: segments 1 to 4 of the new image     *)
(* overwrite moved cells that others below them were made from.            *)
(***************************************************************************)
EXTENDS InPlaceApply

Chunk(diff, extra, adjust) == [diff |-> diff, extra |-> extra, adjust |-> adjust]

\* The old image at addresses 2..8 after the move.  Segments 0..4 read from
\* addresses 2, 4, 6, 8 and 10 on; the last one has no source left.
Forward ==
  << <<Chunk(2, 0, 0)>>,                   \* cells 2, 3
     <<Chunk(1, 0, 2), Chunk(1, 0, 0)>>,   \* cell 4, then 7
     <<Chunk(2, 0, 0)>>,                   \* cells 6, 7
     <<Chunk(1, 1, 0)>>,                   \* cell 8, one new byte
     <<Chunk(0, 1, 0)>> >>

\* Segments that jump back and take the last bytes they may.
Jumping ==
  << <<Chunk(0, 0, 6), Chunk(1, 0, -5), Chunk(1, 0, 0)>>,   \* cell 8, then 4
     <<Chunk(0, 1, 4), Chunk(1, 0, 0)>>,                    \* a new byte, cell 8
     <<Chunk(1, 1, 0)>>,                                    \* cell 6
     <<Chunk(0, 2, 0)>>,
     <<Chunk(0, 1, 0)>> >>

MCPatches == {Forward, Jumping}
=============================================================================
