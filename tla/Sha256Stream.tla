---------------------------- MODULE Sha256Stream ----------------------------
(***************************************************************************)
(* The streaming of Sha256 (sha256.cpp): update cuts what it is given into *)
(* blocks through one buffer, finish pads and closes the last block.  The  *)
(* compression of a block is its appending to hashed; each turn of a loop  *)
(* is a step.  Block and length field are scaled by constants.             *)
(***************************************************************************)
EXTENDS Integers, Sequences

CONSTANTS
  Byte,      \* the bytes of a message
  BlockLen,  \* 64
  LenLen,    \* 8, the bytes of the length at the end
  Base,      \* 256, the values of a byte
  Word,      \* the values of bitlen_
  Updates    \* the byte strings that update may be called with

ASSUME Sizes ==
  /\ LenLen \in Nat \ {0} /\ BlockLen \in Nat /\ LenLen < BlockLen
  /\ Base \in Nat \ {0} /\ Word \in Nat \ {0}
ASSUME UpdatesAssumption == Updates \subseteq Seq(Byte)
Mark == 128                  \* 0x80
ASSUME PadIsBytes == {0, Mark} \subseteq Byte /\ 0..(Base - 1) \subseteq Byte

\* n in LenLen bytes, the most significant first.
BigEndian(n) == [k \in 1..LenLen |-> (n \div Base ^ (LenLen - k)) % Base]
ASSUME LengthIsBytes == \A n \in 0..(Word - 1) : BigEndian(n) \in [1..LenLen -> Byte]

VARIABLES
  hashed,  \* the blocks process() was given, one after the other
  buf,     \* buf_ up to buflen_
  bitlen,
  rest,    \* what the running update() has not taken yet
  phase,   \* between updates, in finish(), or done with it
  bits,    \* the length finish() captured
  message, \* all that update() was given since reset()
  zeros    \* the zeros finish() added

shaVars == <<hashed, buf, bitlen, rest, phase, bits, message, zeros>>

-----------------------------------------------------------------------------
ShaInit ==
  /\ hashed = <<>> /\ buf = <<>> /\ rest = <<>> /\ message = <<>>
  /\ bitlen = 0 /\ bits = 0 /\ zeros = 0
  /\ phase = "open"

Reset ==
  /\ phase = "done"
  /\ hashed' = <<>> /\ buf' = <<>> /\ rest' = <<>> /\ message' = <<>>
  /\ bitlen' = 0 /\ bits' = 0 /\ zeros' = 0
  /\ phase' = "open"

\* The entry of update(): the length is counted, and the loop has data.
Enter(data) ==
  /\ rest = <<>>
  /\ rest' = data
  /\ bitlen' = (bitlen + 8 * Len(data)) % Word

Update(data) ==
  /\ phase = "open"
  /\ Enter(data)
  /\ message' = message \o data
  /\ UNCHANGED <<hashed, buf, phase, bits, zeros>>

Room == BlockLen - Len(buf)
Taken == IF Len(rest) < Room THEN Len(rest) ELSE Room

Left_FromStart == SubSeq(rest, 1, Len(rest) - Taken)
Left == SubSeq(rest, Taken + 1, Len(rest))

\* One turn of update()'s loop.
Take ==
  /\ rest # <<>>
  /\ LET filled == buf \o SubSeq(rest, 1, Taken)
     IN  IF Len(filled) = BlockLen
         THEN hashed' = hashed \o filled /\ buf' = <<>>
         ELSE hashed' = hashed /\ buf' = filled
  /\ rest' = Left
  /\ UNCHANGED <<bitlen, phase, bits, message, zeros>>

\* finish(): the length is captured before the padding counts too.
Finish ==
  /\ phase = "open"
  /\ Enter(<<Mark>>)
  /\ bits' = bitlen
  /\ phase' = "padding"
  /\ UNCHANGED <<hashed, buf, message, zeros>>

PadFull == BlockLen - LenLen
PadsOn == Len(buf) # PadFull

PadZero ==
  /\ phase = "padding"
  /\ PadsOn
  /\ Enter(<<0>>)
  /\ zeros' = zeros + 1
  /\ UNCHANGED <<hashed, buf, phase, bits, message>>

LengthField_Late == BigEndian(bitlen)
LengthField == BigEndian(bits)

\* The length goes to a fixed place in the buffer, past update().
Close ==
  /\ phase = "padding"
  /\ rest = <<>>
  /\ ~PadsOn
  /\ hashed' = (hashed \o SubSeq(buf, 1, PadFull)) \o LengthField
  /\ phase' = "done"
  /\ UNCHANGED <<buf, bitlen, rest, bits, message, zeros>>

ShaNext == Reset \/ (\E data \in Updates : Update(data)) \/ Take \/ Finish \/ PadZero \/ Close

ShaSpec == ShaInit /\ [][ShaNext]_shaVars

-----------------------------------------------------------------------------
\* No step leaves the buffer full (sha256.cpp:94-97).
ShaTypeOK ==
  /\ hashed \in Seq(Byte) /\ buf \in Seq(Byte) /\ rest \in Seq(Byte) /\ message \in Seq(Byte)
  /\ bitlen \in 0..(Word - 1) /\ bits \in 0..(Word - 1) /\ zeros \in Nat
  /\ phase \in {"open", "padding", "done"}
  /\ Len(buf) < BlockLen

Zeros(n) == [k \in 1..n |-> 0]

\* However the message was cut into updates, what was compressed, buffered and not
\* yet taken is the message as one string, and later its padding: no byte is lost,
\* repeated or out of place at a block's edge (sha256.cpp:84-115).
Absorbed ==
  /\ phase = "open" => (hashed \o buf) \o rest = message
  /\ phase = "padding" => (hashed \o buf) \o rest = (message \o <<Mark>>) \o Zeros(zeros)
  /\ phase = "done" => hashed = ((message \o <<Mark>>) \o Zeros(zeros)) \o BigEndian(bits)

\* The message as FIPS 180-4 (5.1.1) pads it: a one bit, the fewest zeros that
\* leave room for the length in the last block, and the length in bits.
PadLen(m) == (2 * BlockLen - LenLen - 1 - (Len(m) % BlockLen)) % BlockLen
Padded(m) ==
  ((m \o <<Mark>>) \o Zeros(PadLen(m))) \o BigEndian((8 * Len(m)) % Word)

\* What is compressed is the padded message, at every length, also where the mark or
\* the length falls into a block of its own; and finish() gets there: its loop, which
\* waits for buflen_ to be 56 exactly, meets it also from behind (sha256.cpp:101-115).
DigestIsOfPadded ==
  /\ phase = "done" => hashed = Padded(message)
  /\ zeros < BlockLen
=============================================================================
