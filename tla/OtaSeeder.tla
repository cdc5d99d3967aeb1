----------------------------- MODULE OtaSeeder -----------------------------
(***************************************************************************)
(* The seeder (transport.cpp, class OtaSeeder): it holds one package and   *)
(* answers each Request with the whole unit, cut into fragments.           *)
(*                                                                         *)
(* A package is [manifest, signature, payload]: the manifest and signature *)
(* are one cell each, the payload a sequence of cells.                     *)
(***************************************************************************)
EXTENDS Merkle, OtaFrame

CONSTANTS
  Session,       \* the session id
  Package,       \* the package it seeds (one that package_parse accepts)
  FragmentSize   \* frag_: the bytes of a fragment, in cells

VARIABLES
  done,          \* the target said Done or Abort
  sent           \* the frames sent during the last call

seederVars == <<done, sent>>

\* The geometry as the constructor keeps it, in 16 bits.
block_size == Package.manifest.block_size % U16
block_count == Package.manifest.block_count % U16
payload_len == Len(Package.payload)

-----------------------------------------------------------------------------
CeilDiv(a, b) == (a + b - 1) \div b

\* The cells of seq from offset off on, len of them or as many as there are.
Slice(seq, off, len) ==
  SubSeq(seq, off + 1, IF off + len <= Len(seq) THEN off + len ELSE Len(seq))

\* A unit cut into frames; an empty unit gives no frame at all.
Fragments(type, index, unit) ==
  [k \in 1..CeilDiv(Len(unit), FragmentSize) |->
     LET off == (k - 1) * FragmentSize
     IN  MakeFrame(type, Session, index, off, Len(unit),
                   Slice(unit, off, FragmentSize))]

\* Leaves for proof generation, recomputed from the payload.
leaves ==
  [k \in 1..CeilDiv(payload_len, block_size) |->
     hash_leaf(Slice(Package.payload, (k - 1) * block_size, block_size))]

StartFrames ==
  <<MakeFrame("Start", Session, 0, 0, 0,
              <<[block_size |-> block_size, block_count |-> block_count,
                 payload_length |-> payload_len]>>)>>

ManifestFrames ==
  Fragments("Manifest", kIndexManifest, <<Package.manifest, Package.signature>>)

BlockFrames(index) ==
  IF index >= block_count THEN <<>>
  ELSE Fragments("Block", index,
                 Slice(Package.payload, index * block_size, block_size))

\* The digests of a proof, one after the other.
ProofBytes(index) ==
  LET proof == merkle_proof(leaves, index)
  IN  [k \in 1..(Len(proof) * HashLen) |->
         proof[((k - 1) \div HashLen) + 1][((k - 1) % HashLen) + 1]]

ProofFrames(index) ==
  IF ProofBytes(index) = <<>> THEN <<SimpleFrame("Proof", Session, index)>>
  ELSE Fragments("Proof", index, ProofBytes(index))

\* What the seeder sends for a Request.
Answer(index) ==
  IF index = kIndexManifest THEN ManifestFrames
                            ELSE ProofFrames(index) \o BlockFrames(index)

-----------------------------------------------------------------------------
\* Constructed, and begin() called: the START is sent.
SeederInit == done = FALSE /\ sent = StartFrames

HandleRequest(f) ==
  /\ f.session = Session
  /\ f.type = "Request"
  /\ sent' = Answer(f.index)
  /\ UNCHANGED done

\* What ends the session; an Ack is advisory.
Ends_OnAck(f) == f.type \in {"Ack", "Done", "Abort"}
Ends_OnAbort(f) == f.type = "Abort"
Ends(f) == f.type \in {"Done", "Abort"}

HandleEnd(f) ==
  /\ f.session = Session
  /\ Ends(f)
  /\ done' = TRUE
  /\ sent' = <<>>

HandleOther(f) ==
  /\ f.session # Session \/ ~(f.type = "Request" \/ Ends(f))
  /\ sent' = <<>>
  /\ UNCHANGED done

SeederOnFrame(f) == HandleRequest(f) \/ HandleEnd(f) \/ HandleOther(f)

=============================================================================
