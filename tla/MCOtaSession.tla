---------------------------- MODULE MCOtaSession ----------------------------
(* A session over a package of two blocks, cut into one-cell fragments.      *)
EXTENDS OtaSession

Cell(name) == [atom |-> name]

Blocks == <<<<Cell("a"), Cell("b")>>, <<Cell("c")>>>>

TheManifest ==
  [block_size |-> 2, block_count |-> 2, payload_length |-> 3,
   payload_merkle_root |-> merkle_root([i \in 1..2 |-> hash_leaf(Blocks[i])])]

MCPackage ==
  [manifest |-> TheManifest, signature |-> SignatureOf(TheManifest),
   payload |-> FlattenSeq(Blocks)]

MCManifests == {TheManifest}
MCPayload == [m \in MCManifests |-> Blocks]

\* Every frame the radio can carry to the target.
MCFrames ==
  SeederFrames \cup {DamagedFrame(f) : f \in {g \in SeederFrames : g.type \in Damageable}}

CellsOf(type) == UNION {ToSet(f.data) : f \in {g \in MCFrames : g.type = type}}
MCBlockCells == CellsOf("Block")
MCProofCells == CellsOf("Proof")
=============================================================================
