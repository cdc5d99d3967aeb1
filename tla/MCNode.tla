------------------------------- MODULE MCNode -------------------------------
(***************************************************************************)
(* What a node does around a transfer: it checks a package and its         *)
(* signer, compares the base with its own build, assembles a delta and     *)
(* applies it.  A behaviour is about one of these, the others keep still.  *)
(***************************************************************************)
EXTENDS BufferBlockStore, PackageCheck, SelfIdentity, PatchFormat

CONSTANTS c1, c2, c3, k1, k2, k3

VARIABLE part

-----------------------------------------------------------------------------
(* A delta of four blocks of three bytes, the last one short.                *)

SmallManifest == [block_size |-> 3, block_count |-> 4, payload_length |-> 11]
SmallBlocks == {<<c1, c1, c1>>, <<c1, c2, c3>>, <<c2, c2, c1>>, <<c3, c1>>, <<c2, c2>>}
Cells == {c1, c2, c3, Zero}

-----------------------------------------------------------------------------
(* Packages: two payload lengths, manifests of two releases, signatures by   *)
(* three keys, for two ports or for none; some are cut short, lengthened, or *)
(* have a cell replaced.  Keys are added again, so that one finds no room.   *)

AllKeys == {k1, k2, k3}

Manifests == {<<kManifestMagic, kFormat, n, release>> : n \in 0..1, release \in {"release A", "release B"}}
Payload(m) == [i \in 1..m[3] |-> m[4]]
Signatures(m) ==
  {Sign(k, <<0, 0, port>> \o m) : k \in AllKeys, port \in {kOtaPortnum, 6}} \cup {Sign(k1, m)}
GenuinePackages == UNION {{Package(m, s, Payload(m)) : s \in Signatures(m)} : m \in Manifests}

ReleaseA ==
  {Package(m, Sign(k, <<0, 0, kOtaPortnum>> \o m), Payload(m)) :
     k \in {k1, k3}, m \in {n \in Manifests : n[4] = "release A"}}
CutPackages == {SubSeq(b, 1, n) : b \in ReleaseA, n \in 0..10}
LongerPackages == {Append(b, "more") : b \in ReleaseA}
MixedPackages == {[b EXCEPT ![i] = other[i]] : b \in ReleaseA, i \in 1..10, other \in ReleaseA}
DamagedPackages ==
  LET empty == {b \in ReleaseA : b[7] = 0}
  IN  {[b EXCEPT ![i] = v] : b \in empty, i \in 3..4, v \in 0..5}
        \cup {[b EXCEPT ![i] = v] : b \in empty, i \in {1, 5}, v \in {"MOTA", "MMAN"}}
        \cup {[b EXCEPT ![i] = v] : b \in empty, i \in {2, 6, 7}, v \in 0..2}

AllOffers == GenuinePackages \cup CutPackages \cup LongerPackages \cup MixedPackages \cup DamagedPackages

-----------------------------------------------------------------------------
(* Images whose segments end just below, on and just above a multiple of 16, *)
(* with and without a hash; names that differ in one field or are a prefix   *)
(* of one another; trailers damaged in a field that is no name.              *)

Layouts == {<<>>, <<0>>, <<15>>, <<16>>, <<7, 9>>, <<24, 8>>}
Short(name) == Fixed(<<name>>)
TrailerOf(env, version, commit) ==
  trailer_finalize([magic |-> "", format |-> 0, env |-> env, version |-> version,
                    commit |-> commit, image_length |-> 0, crc32 |-> <<>>])
Plain == TrailerOf(Short("e"), Short("v"), Short("c"))
Others ==
  {TrailerOf(Short("f"), Short("v"), Short("c")), TrailerOf(Short("e"), Short("w"), Short("c")),
   TrailerOf(Short("e"), Short("v"), Short("d")), TrailerOf(Fixed(<<"e", "f">>), Short("v"), Short("c")),
   TrailerOf(Short("e"), Short("v"), Fixed(<<>>))}

\* The packager is told nothing, or the names of the plain build.
NamesGiven ==
  {[env |-> <<>>, version |-> <<>>, commit |-> <<>>],
   [env |-> <<"e">>, version |-> <<"v">>, commit |-> <<"c">>]}

MCImages ==
  [segments : Layouts, hashed : BOOLEAN, trailer : {Plain, [Plain EXCEPT !.image_length = 1], None}]
    \cup [segments : {<<7, 9>>}, hashed : {TRUE}, trailer : Others]

-----------------------------------------------------------------------------
(* Patches as detools writes them, uncompressed and in two ways of CRLE,     *)
(* whole, cut short anywhere and with bytes after them; and a few that       *)
(* detools_apply cannot take.                                                *)

Old == [k \in 1..70 |-> (7 * k) % 256]

\* A size as detools packs it.
RECURSIVE Rest(_)
Rest(v) == IF v < 128 THEN <<v>> ELSE <<128 + (v % 128)>> \o Rest(v \div 128)
Pack(v) ==
  LET a == IF v < 0 THEN -v ELSE v
      s == IF v < 0 THEN 64 ELSE 0
  IN  IF a < 64 THEN <<s + a>> ELSE <<128 + s + (a % 64)>> \o Rest(a \div 64)

\* The parts of a patch: what is added to the base, what is new, where to go on.
Stretch(diff, extra, adjust) == [diff |-> diff, extra |-> extra, adjust |-> adjust]
Bytes(n, b) == [k \in 1..n |-> b]

Big == <<Stretch(Bytes(66, 0), <<1, 2>>, 0)>>
Small == <<Stretch(<<0, 0, 0, 9, 250>>, <<>>, 4), Stretch(<<0, 0>>, <<8, 8, 8>>, -7), Stretch(<<3>>, <<5>>, 0)>>

\* The image the parts stand for.
RECURSIVE ImageOf(_, _)
ImageOf(parts, pos) ==
  IF parts = <<>> THEN <<>>
  ELSE LET s == Head(parts) IN
       ([k \in DOMAIN s.diff |-> (s.diff[k] + Old[pos + k]) % 256] \o s.extra)
         \o ImageOf(Tail(parts), pos + Len(s.diff) + s.adjust)

Stream(parts) ==
  Pack(0) \o FlattenSeq([i \in DOMAIN parts |->
    LET s == parts[i] IN ((Pack(Len(s.diff)) \o s.diff) \o (Pack(Len(s.extra)) \o s.extra)) \o Pack(s.adjust)])

\* CRLE: all of it scattered, or every run of equal bytes repeated.
Scattered(s) == (<<0>> \o Rest(Len(s))) \o s
RECURSIVE RunEnd(_, _)
RunEnd(s, k) == IF k < Len(s) /\ s[k + 1] = s[1] THEN RunEnd(s, k + 1) ELSE k
RECURSIVE Repeated(_)
Repeated(s) ==
  IF s = <<>> THEN <<>>
  ELSE LET n == RunEnd(s, 1)
       IN  ((<<1>> \o Rest(n)) \o <<s[1]>>) \o Repeated(SubSeq(s, n + 1, Len(s)))

Patch(parts, form) ==
  LET new == ImageOf(parts, 0)
      packed == CASE form = "none" -> Stream(parts)
                  [] form = "scattered" -> Scattered(Stream(parts))
                  [] form = "repeated" -> Repeated(Stream(parts))
  IN  [patch |-> (<<IF form = "none" THEN 0 ELSE 2>> \o Pack(Len(new))) \o packed,
       image |-> new, sound |-> TRUE]

Forms == {"none", "scattered", "repeated"}
WholePatches == {Patch(parts, form) : parts \in {Big, Small}, form \in Forms}
\* Cut short, whole, or followed by more; only the uncompressed reader counts what follows.
CutShort(w) == {[w EXCEPT !.patch = SubSeq(@, 1, n), !.sound = FALSE] : n \in 0..(Len(w.patch) - 1)}
Longer(w) == [w EXCEPT !.patch = @ \o Bytes(20, 0), !.sound = (w.patch[1] = 2)]
Sent(w) == CutShort(w) \cup {w, Longer(w)}
EmptyImage == {[patch |-> <<2, 0>>, image |-> <<>>, sound |-> TRUE]}
Unfit == {[patch |-> bytes, image |-> <<>>, sound |-> FALSE] :
            bytes \in {<<16, 1>>, <<1, 1>>, <<0, 128, 128, 128, 128, 128>>, <<2, 1, 0, 128, 128, 128, 128, 1>>,
                       <<2, 1, 1, 128, 128, 128, 128, 1>>, <<0, 1, 0, 128, 128, 128, 128, 1, 5>>, <<0, 1, 1, 1, 1>>,
                       <<2, 1, 5>>, <<0, 1, 0, 3>>, <<0, 1, 0, 0, 0, 65>>}}

AllUpdates == UNION {Sent(w) : w \in WholePatches} \cup EmptyImage \cup Unfit

\* Where everything lies in them.
RECURSIVE PartsFrom(_, _, _, _)
PartsFrom(parts, place, pos, to) ==
  IF parts = <<>> THEN <<>>
  ELSE LET s == Head(parts)
           diff == place + Len(Pack(Len(s.diff)))
           extra_size == diff + Len(s.diff)
           extra == extra_size + Len(Pack(Len(s.extra)))
           adjustment == extra + Len(s.extra)
           end == adjustment + Len(Pack(s.adjust))
           next == pos + Len(s.diff) + s.adjust
       IN  <<[diff_size |-> place, diff_data |-> diff, extra_size |-> extra_size, extra_data |-> extra,
              adjustment |-> adjustment, end |-> end, base |-> pos, to |-> to, next |-> next]>>
             \o PartsFrom(Tail(parts), end, next, to + Len(s.diff) + Len(s.extra))

RECURSIVE RunsFrom(_, _, _)
RunsFrom(s, place, from) ==
  IF s = <<>> THEN <<>>
  ELSE LET n == RunEnd(s, 1)
           data == place + 1 + Len(Rest(n))
       IN  <<[place |-> place, data |-> data, end |-> data + 1, from |-> from, to |-> from + n]>>
             \o RunsFrom(SubSeq(s, n + 1, Len(s)), data + 1, from + n)

Layout(parts, form) ==
  LET w == Patch(parts, form)
      s == Stream(parts)
      head == 1 + Len(Pack(Len(w.image)))
      data == head + 1 + Len(Rest(Len(s)))
  IN  [whole |-> w.patch, header |-> head, stream |-> s,
       runs |-> IF form = "repeated" THEN RunsFrom(s, head, 0)
                ELSE <<[place |-> head, data |-> data, end |-> data + Len(s), from |-> 0, to |-> Len(s)]>>,
       parts |-> PartsFrom(parts, 1, 0, 0)]

EmptyLayout == [whole |-> <<2, 0>>, header |-> 2, stream |-> <<>>, runs |-> <<>>, parts |-> <<>>]

\* The patches above are such as the proofs are about.
ASSUME SentAreWritten ==
  /\ \A parts \in {Big, Small}, form \in Forms :
       \A u \in Sent(Patch(parts, form)) : WrittenAs(u, Layout(parts, form))
  /\ \A u \in EmptyImage : WrittenAs(u, EmptyLayout)

-----------------------------------------------------------------------------
MCInit ==
  /\ part \in {"store", "check", "identity", "apply"}
  /\ BufferInit
  /\ CheckInit
  /\ IF part = "identity" THEN IdentityInit
     ELSE partition = {} /\ image = [segments |-> <<>>, hashed |-> FALSE, trailer |-> None]
          /\ base = None /\ verdict = FALSE
  /\ IF part = "apply" THEN ApplyInit
     ELSE \* detools_apply has returned: it is not called again
          /\ update \in EmptyImage /\ patch_offset = 0 /\ chunk = <<>>
          /\ state = "done" /\ compression = 0 /\ reader = NoReader /\ num = NoNum
          /\ to_size = 0 /\ chunk_size = 0 /\ base_pos = 0
          /\ sink = <<>> /\ failed = FALSE /\ result = 0

MCNext ==
  \/ part = "store" /\ BufferNext /\ UNCHANGED <<part, checkVars, identityVars, applyVars>>
  \/ part = "check" /\ CheckNext /\ UNCHANGED <<part, storeVars, identityVars, applyVars>>
  \/ part = "identity" /\ IdentityNext /\ UNCHANGED <<part, storeVars, checkVars, applyVars>>
  \/ part = "apply" /\ ApplyNext /\ UNCHANGED <<part, storeVars, checkVars, identityVars>>

MCSpec ==
  /\ MCInit /\ [][MCNext]_<<part, storeVars, checkVars, identityVars, applyVars>>
  /\ WF_applyVars(ApplyNext)
=============================================================================
