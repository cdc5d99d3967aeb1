------------------------- MODULE MCOtaReceiverHints -------------------------
(***************************************************************************)
(* The receiver where the hints of a START and the signed manifest         *)
(* disagree: a START of another, longer package may arrive in the session. *)
(***************************************************************************)
EXTENDS MCPackages

Blocks == <<<<Cell("a")>>, <<Cell("b")>>>>
OtherBlocks == <<<<Cell("c")>>, <<Cell("d")>>, <<Cell("e")>>>>

MCManifests == {ManifestOf(Blocks)}
MCPayload == [m \in MCManifests |-> Blocks]

MCFrames ==
  LET p == PackageOf(Blocks)
  IN  StartOf(PackageOf(OtherBlocks)) \cup StartOf(p) \cup ManifestUnit(p)
        \cup BlockUnits(p) \cup ProofUnits(p)

MCBlockCells == CellsOf("Block", MCFrames)
MCProofCells == CellsOf("Proof", MCFrames)
=============================================================================
