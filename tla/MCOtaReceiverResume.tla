------------------------ MODULE MCOtaReceiverResume ------------------------
(***************************************************************************)
(* The receiver of one package of three one-cell blocks (the last leaf is  *)
(* promoted, so the proofs differ in length) over a store that survives    *)
(* its reboots.                                                            *)
(***************************************************************************)
EXTENDS OneRelease, MCPackages

Blocks == <<<<Cell("a")>>, <<Cell("b")>>, <<Cell("c")>>>>

MCManifests == {ManifestOf(Blocks)}
MCPayload == [m \in MCManifests |-> Blocks]

MCFrames ==
  LET p == PackageOf(Blocks)
  IN  UNION {StartOf(p), ManifestUnit(p), BlockUnits(p), ProofUnits(p),
             {Broken(f, DamagedCell) : f \in BlockUnits(p)}, {LongFragment}}

MCBlockCells == CellsOf("Block", MCFrames)
MCProofCells == CellsOf("Proof", MCFrames)
=============================================================================
