------------------------- MODULE MCOtaReceiverWide -------------------------
(***************************************************************************)
(* The receiver of a signed manifest of 65536 blocks, whose START is lost. *)
(***************************************************************************)
EXTENDS MCPackages

\* The root is of no importance: no block of it is ever asked for.
WideManifest ==
  [block_size |-> 1, block_count |-> U16, payload_length |-> U16,
   payload_merkle_root |-> hash_leaf(<<Cell("a")>>)]

MCManifests == {WideManifest}
MCPayload == [m \in MCManifests |-> [i \in 1..U16 |-> <<Cell("a")>>]]

MCFrames ==
  {MakeFrame("Manifest", Session, kIndexManifest, 0, 2, <<WideManifest>>),
   MakeFrame("Manifest", Session, kIndexManifest, 1, 2, <<SignatureOf(WideManifest)>>)}

MCBlockCells == {Cell("a")}
MCProofCells == {Cell("a")}
=============================================================================
