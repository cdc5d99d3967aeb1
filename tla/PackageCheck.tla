---------------------------- MODULE PackageCheck ----------------------------
(***************************************************************************)
(* A package offered to a node: package_parse, then                        *)
(* package_verify_signature with the node's AdminKeyVerifier.  Bytes are   *)
(* cells: a field of the header or the manifest is one.  The curve's       *)
(* arithmetic is an oracle: a signature verifies under the key that made   *)
(* it, over the very message.                                              *)
(***************************************************************************)
EXTENDS Integers, Sequences, SequencesExt

CONSTANTS
  Keys,     \* Curve25519 public keys
  Offers    \* the buffers that are offered

ASSUME OffersAreBuffers == \A b \in Offers : Len(b) \in Nat /\ b = [i \in 1..Len(b) |-> b[i]]

HeaderLen == 4      \* sizeof(PackageHeader): magic, format, manifest and signature length
ManifestLen == 4    \* sizeof(Manifest): magic, format, payload length, the rest
SigLen == 2         \* kEd25519SigLen
kPackageMagic == "MOTA"
kManifestMagic == "MMAN"
kFormat == 1
kOtaPortnum == 79
kMaxKeys == 3
kXeddsaMaxPayload == 5

VARIABLES
  keys,      \* keys_ up to count_
  package,       \* the package that was offered last
  parsed,    \* what package_parse said of it, and the views it gave
  verified   \* what package_verify_signature said

checkVars == <<keys, package, parsed, verified>>

-----------------------------------------------------------------------------
(* package.cpp                                                               *)

Error(e) == [error |-> e, manifest |-> <<>>, signature |-> <<>>, payload |-> <<>>]

\* A section fits what is left of the buffer after off.
SectionFits(b, off, len) == len <= Len(b) - off

TrueLength_AtMost(b) == b[HeaderLen + 3] <= Len(b) - (HeaderLen + ManifestLen + SigLen)
TrueLength(b) == b[HeaderLen + 3] = Len(b) - (HeaderLen + ManifestLen + SigLen)

package_parse(b) ==
  LET signature == HeaderLen + ManifestLen
      payload == signature + SigLen
  IN  CASE Len(b) < HeaderLen                             -> Error("TooSmall")
        [] b[1] # kPackageMagic                           -> Error("BadMagic")
        [] b[2] # kFormat                                 -> Error("BadFormat")
        [] b[3] # ManifestLen \/ b[4] # SigLen            -> Error("BadManifest")
        [] ~SectionFits(b, HeaderLen, ManifestLen)               -> Error("LengthMismatch")
        [] ~SectionFits(b, signature, SigLen)                    -> Error("LengthMismatch")
        [] b[HeaderLen + 1] # kManifestMagic              -> Error("BadManifest")
        [] b[HeaderLen + 2] # kFormat                     -> Error("BadManifest")
        [] ~TrueLength(b)                                 -> Error("LengthMismatch")
        [] OTHER -> [error |-> "Ok",
                     manifest |-> SubSeq(b, HeaderLen + 1, signature),
                     signature |-> SubSeq(b, signature + 1, payload),
                     payload |-> SubSeq(b, payload + 1, Len(b))]

-----------------------------------------------------------------------------
(* xeddsa.cpp, vendor_tweetnacl.c                                            *)

\* The Edwards form of a Montgomery key; distinct keys keep distinct forms.
EdwardsOf(key) == [edwards |-> key]

\* The two halves of the signature a key's owner makes of a message.
Sign(key, message) == <<[r |-> EdwardsOf(key), of |-> message], [s |-> EdwardsOf(key), of |-> message]>>

crypto_sign_open(sig, message, key) == sig = Sign(key.edwards, message)

SigningBuffer_PayloadOnly(from, id, portnum, payload) == payload
SigningBuffer(from, id, portnum, payload) == <<from, id, portnum>> \o payload

ota_xeddsa_verify_raw(key, message, sig) == crypto_sign_open(sig, message, EdwardsOf(key))

xeddsa_verify(key, from, id, portnum, payload, sig) ==
  /\ Len(payload) <= kXeddsaMaxPayload
  /\ ota_xeddsa_verify_raw(key, SigningBuffer(from, id, portnum, payload), sig)

-----------------------------------------------------------------------------
(* admin_key_verifier.h                                                      *)

add_key_Ring(held, k) == IF Len(held) >= kMaxKeys THEN Append(Tail(held), k) ELSE Append(held, k)
add_key(held, k) == IF Len(held) >= kMaxKeys THEN held ELSE Append(held, k)

verify_FirstKey(held, msg, sig) ==
  /\ Len(sig) = SigLen /\ held # <<>>
  /\ xeddsa_verify(held[1], 0, 0, kOtaPortnum, msg, sig)
verify(held, msg, sig) ==
  /\ Len(sig) = SigLen /\ held # <<>>
  /\ \E i \in DOMAIN held : xeddsa_verify(held[i], 0, 0, kOtaPortnum, msg, sig)

package_verify_signature(p) == p.manifest # <<>> /\ verify(keys, p.manifest, p.signature)

CheckInit ==
  /\ keys = <<>> /\ package = <<>> /\ parsed = package_parse(<<>>) /\ verified = FALSE

AddKey(k) ==
  /\ keys' = add_key(keys, k)
  /\ UNCHANGED <<package, parsed, verified>>

OfferPackage(b) ==
  /\ package' = b
  /\ parsed' = package_parse(b)
  /\ verified' = package_verify_signature(parsed')
  /\ UNCHANGED keys

CheckNext == (\E k \in Keys : AddKey(k)) \/ (\E b \in Offers : OfferPackage(b))

CheckSpec == CheckInit /\ [][CheckNext]_checkVars

-----------------------------------------------------------------------------
\* A package as the packager writes it.
Package(manifest, signature, payload) ==
  (<<kPackageMagic, kFormat, ManifestLen, SigLen>> \o manifest) \o (signature \o payload)
IsManifest(m) == Len(m) = ManifestLen /\ m[1] = kManifestMagic /\ m[2] = kFormat

\* What is parsed is a package and nothing else, and its views are its sections: a
\* buffer cut, lengthened or damaged in a field is told apart (package.cpp:7-51).
ParseIsExact ==
  /\ parsed.error = "Ok" =>
       /\ package = Package(parsed.manifest, parsed.signature, parsed.payload)
       /\ IsManifest(parsed.manifest) /\ parsed.manifest[3] = Len(parsed.payload)
  /\ parsed.error # "Ok" =>
       \A n \in 0..Len(package) :
         LET payload == SubSeq(package, n + 1, Len(package))
             manifest == SubSeq(package, HeaderLen + 1, HeaderLen + ManifestLen)
             signature == SubSeq(package, HeaderLen + ManifestLen + 1, n)
         IN  n = HeaderLen + ManifestLen + SigLen /\ IsManifest(manifest) /\ manifest[3] = Len(payload)
               => package # Package(manifest, signature, payload)

\* The holder of a key that was added signed the manifest that was parsed, as an update.
Authorized ==
  /\ parsed.error = "Ok"
  /\ \E k \in ToSet(keys) : parsed.signature = Sign(k, <<0, 0, kOtaPortnum>> \o parsed.manifest)

\* A package is authorized exactly when the holder of a key that was added signed its
\* manifest as an update: with any of the keys, never with none, never by a signature
\* made for another port or over another manifest; and as no key is displaced by
\* another, a verdict stays true and a key does not lose its say
\* (admin_key_verifier.h:25-45).
VerdictIsExact ==
  /\ verified => Authorized
  /\ package_verify_signature(parsed) <=> Authorized
=============================================================================
