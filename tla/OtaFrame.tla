------------------------------ MODULE OtaFrame ------------------------------
(***************************************************************************)
(* The transport frame (transport.h): an 8-byte header and the bytes of    *)
(* one fragment of a unit.  Both ends of a session use it.                 *)
(***************************************************************************)
EXTENDS Naturals, Sequences

U16 == 65536                \* the width of an index, an offset, a length
Index == 0..(U16 - 1)
kIndexManifest == 65535     \* names the manifest unit in a Request

MakeFrame(type, session, index, off, total, data) ==
  [type |-> type, session |-> session, index |-> index, off |-> off,
   total |-> total, data |-> data]

\* A frame without payload.
SimpleFrame(type, session, index) == MakeFrame(type, session, index, 0, 0, <<>>)

\* The frames of the given types whose payload is made of the given cells.
FrameOf(types, cells) ==
  [type : types, session : Nat, index : Index, off : Index, total : Index,
   data : Seq(cells)]

=============================================================================
