---------------------------- MODULE SelfIdentity ----------------------------
(***************************************************************************)
(* How a node knows which build it runs, and which delta fits it: the      *)
(* trailer behind an ESP image is found in a partition larger than the     *)
(* image, checked, and compared with the base a manifest names.            *)
(*                                                                         *)
(* A partition is a set of pieces, each [at, len, what]: only headers and  *)
(* trailers are told apart from other bytes.  A text field is the sequence *)
(* of its characters; the CRC tells any two contents apart.                *)
(***************************************************************************)
EXTENDS Integers, Sequences, SequencesExt

CONSTANTS
  Images,         \* [segments |-> their data lengths, hashed, trailer]
  PartitionLen,   \* bytes of the partition
  FieldLen,       \* kEnvLen, kVersionLen and kCommitLen
  Given           \* the names the packager is called with: [env, version, commit]

None == [magic |-> "none"]    \* no trailer, no image
Garbage == [magic |-> "?"]    \* bytes of anything else
NUL == "NUL"

Fields(t) == {t.env, t.version, t.commit}

\* The names the packager is called with fit their fields.
ASSUME GivenNamesFit ==
  \A g \in Given :
    /\ DOMAIN g = {"env", "version", "commit"}
    /\ \A t \in Fields(g) :
         t \in Seq(STRING) /\ Len(t) < FieldLen /\ \A k \in DOMAIN t : t[k] # NUL

\* The packager ends every name with a NUL inside its field (formats.py, _fixed).
ASSUME ImagesAreBuilt ==
  /\ PartitionLen \in Nat /\ FieldLen \in Nat \ {0}
  /\ \A i \in Images :
       /\ i.segments \in Seq(Nat) /\ i.hashed \in BOOLEAN
       /\ i.trailer # None =>
            \A f \in Fields(i.trailer) : f \in Seq(STRING) /\ Len(f) = FieldLen /\ f[FieldLen] = NUL

VARIABLES
  partition,   \* the pieces in flash
  image,       \* the image that was flashed last
  base,        \* what the delta offered last was built from: [image, given], or None
  verdict      \* what the identity gate said of it

identityVars == <<partition, image, base, verdict>>

-----------------------------------------------------------------------------
(* esp_image.cpp                                                             *)

kHeaderLen == 24
kSegHeaderLen == 8
kShaLen == 32
TrailerLen == 172    \* sizeof(OtaTrailer)

Readable(offset, n) == offset <= PartitionLen /\ n <= PartitionLen - offset
ReadAt(pieces, offset, n) ==
  IF \E p \in pieces : p.at = offset /\ p.len = n
  THEN (CHOOSE p \in pieces : p.at = offset /\ p.len = n).what
  ELSE Garbage

\* One checksum byte, padded so that the total is a multiple of 16.
Padded_IfNeeded(len) == len + ((16 - (len % 16)) % 16)
Padded(len) == (len + (15 - (len % 16))) + 1

NoLength == 0

\* Where each segment ends, read from header to header.
segment_ends(pieces, segment_count) ==
  LET end[i \in 0..segment_count] ==
        IF i = 0 THEN kHeaderLen
        ELSE LET len == end[i - 1]
             IN  IF len = NoLength \/ ~Readable(len, kSegHeaderLen) THEN NoLength
                 ELSE len + kSegHeaderLen + ReadAt(pieces, len, kSegHeaderLen).data_len
  IN  end

esp_image_length(pieces) ==
  LET header == ReadAt(pieces, 0, kHeaderLen)
      len == segment_ends(pieces, header.segment_count)[header.segment_count]
  IN  IF ~Readable(0, kHeaderLen) \/ header.magic # "E9" \/ len = NoLength THEN NoLength
      ELSE Padded(len) + (IF header.hash_appended THEN kShaLen ELSE 0)

-----------------------------------------------------------------------------
(* trailer.cpp                                                               *)

crc32_ieee(t) == <<t.magic, t.format, t.env, t.version, t.commit, t.image_length>>

trailer_finalize(t) ==
  LET u == [t EXCEPT !.magic = "OTB1", !.format = 1] IN [u EXCEPT !.crc32 = crc32_ieee(u)]
trailer_is_valid(t) == t.magic = "OTB1" /\ t.format = 1 /\ t.crc32 = crc32_ieee(t)

\* The string a field holds: it ends at a NUL, or with the field.
Text(f) == SubSeq(f, 1, SelectInSeq(Append(f, NUL), LAMBDA c : c = NUL) - 1)

field_equal_Prefix(a, b) == IsPrefix(Text(a), Text(b))
field_equal(a, b) == Text(a) = Text(b)

\* The trailer of the image in a partition, and of the image in a file.
Identify(pieces) ==
  LET len == esp_image_length(pieces)
      t == ReadAt(pieces, len, TrailerLen)
  IN  IF len = NoLength \/ ~Readable(len, TrailerLen) \/ t.magic = "?" THEN None
      ELSE IF trailer_is_valid(t) THEN t ELSE None
trailer_from_image_tail(i) ==
  IF i.trailer # None /\ trailer_is_valid(i.trailer) THEN i.trailer ELSE None

-----------------------------------------------------------------------------
(* package.cpp, and the packager that writes the manifest                    *)

\* The last character of a field is kept for a NUL (formats.py, _fixed and _cstr).
Fixed(text) ==
  [k \in 1..FieldLen |-> IF k <= Len(text) /\ k < FieldLen THEN text[k] ELSE NUL]

\* A base is called what its trailer says, and where that says nothing, or there is
\* none, what the packager was told.
OrGiven_Given(f, text) == text
OrGiven(f, text) == IF Text(f) # <<>> THEN Text(f) ELSE text
BaseNames(b, given) ==
  LET t == trailer_from_image_tail(b)
  IN  IF t = None THEN given
      ELSE [env |-> OrGiven(t.env, given.env), version |-> OrGiven(t.version, given.version),
            commit |-> OrGiven(t.commit, given.commit)]

build_delta_package(b, given) ==
  LET names == BaseNames(b, given)
  IN  [env |-> Fixed(names.env), base_version |-> Fixed(names.version),
       base_commit |-> Fixed(names.commit)]

package_identity_matches_NoCommit(manifest, running) ==
  /\ field_equal(manifest.env, running.env)
  /\ field_equal(manifest.base_version, running.version)
package_identity_matches(manifest, running) ==
  /\ field_equal(manifest.env, running.env)
  /\ field_equal(manifest.base_version, running.version)
  /\ field_equal(manifest.base_commit, running.commit)

-----------------------------------------------------------------------------
(* The image as esptool lays it out, and the partition that receives it.     *)

\* Where each segment of an image ends; the first begins behind the header.
SegmentEnds(i) ==
  LET end[k \in 0..Len(i.segments)] ==
        IF k = 0 THEN kHeaderLen ELSE end[k - 1] + kSegHeaderLen + i.segments[k]
  IN  end
ImageLen(i) ==
  16 * (SegmentEnds(i)[Len(i.segments)] \div 16 + 1) + (IF i.hashed THEN kShaLen ELSE 0)
TotalLen(i) == ImageLen(i) + (IF i.trailer = None THEN 0 ELSE TrailerLen)

Pieces(i) ==
  {[at |-> 0, len |-> kHeaderLen,
    what |-> [magic |-> "E9", segment_count |-> Len(i.segments), hash_appended |-> i.hashed]]}
  \cup {[at |-> SegmentEnds(i)[k - 1], len |-> kSegHeaderLen, what |-> [data_len |-> i.segments[k]]]
          : k \in DOMAIN i.segments}
  \cup {[at |-> ImageLen(i), len |-> TrailerLen, what |-> t] : t \in {i.trailer} \ {None}}

IdentityInit ==
  /\ image \in {i \in Images : TotalLen(i) <= PartitionLen}
  /\ partition = Pieces(image)
  /\ base = None /\ verdict = FALSE

\* An image is written; whatever the flash held beyond it may still be there.
Flash(i) ==
  /\ TotalLen(i) <= PartitionLen
  /\ partition' = Pieces(i) \cup {p \in partition : p.at >= TotalLen(i)}
  /\ image' = i
  /\ base' = None /\ verdict' = FALSE

\* A delta built from the image b is offered, and gated on the running identity.
OfferDelta(b, given) ==
  /\ base' = [image |-> b, given |-> given]
  /\ LET running == Identify(partition)
     IN  verdict' = (running # None
                       /\ package_identity_matches(build_delta_package(b, given), running))
  /\ UNCHANGED <<partition, image>>

IdentityNext ==
  \/ \E i \in Images : Flash(i)
  \/ \E i \in Images, given \in Given : OfferDelta(i, given)

IdentitySpec == IdentityInit /\ [][IdentityNext]_identityVars

-----------------------------------------------------------------------------
\* The trailer read through the length of the image in the partition is the one the
\* image's file ends with, or neither is valid, whatever its segments and whatever
\* an earlier, longer image left behind (esp_image.h:31-34).
IdentityIsOfImage ==
  image.trailer # None => Identify(partition) = trailer_from_image_tail(image)

Names(i) ==
  [env |-> Text(i.trailer.env), version |-> Text(i.trailer.version), commit |-> Text(i.trailer.commit)]

\* What the builder means the base to be called: each name of its own, if it has a
\* sound trailer and that one is not blank, else the one given.
MeantNames(b, given) ==
  [n \in DOMAIN given |->
     IF b.trailer # None /\ trailer_is_valid(b.trailer) /\ Names(b)[n] # <<>>
     THEN Names(b)[n] ELSE given[n]]

\* A delta passes the gate exactly when the names of the build it was made from, env,
\* version and commit, are those of the image that runs (package.h:61-62): those of
\* its trailer, or the packager's where the trailer is silent (package.py:183-189).
GateIsExact ==
  base # None /\ image.trailer # None =>
    (verdict <=> trailer_is_valid(image.trailer)
                   /\ MeantNames(base.image, base.given) = Names(image))
=============================================================================
