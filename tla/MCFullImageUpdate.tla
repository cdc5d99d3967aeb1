------------------------- MODULE MCFullImageUpdate -------------------------
(***************************************************************************)
(* One full image of three blocks, the last one short; a damaged fragment  *)
(* of the manifest or of the second block, or an Abort.                    *)
(***************************************************************************)
EXTENDS FullImageUpdate, MCPackages

Image == <<<<Cell("a"), Cell("b")>>, <<Cell("c"), Cell("d")>>, <<Cell("e")>>>>

MCManifest == ManifestOf(Image)
MCManifests == {MCManifest}
MCPayload == [m \in MCManifests |-> Image]
MCBlock == {Image[k] : k \in DOMAIN Image}

MCGenuine ==
  LET p == PackageOf(Image)
  IN  UNION {StartOf(p), ManifestUnit(p), BlockUnits(p), ProofUnits(p)}

MCFrames ==
  MCGenuine \cup {SimpleFrame("Abort", Session, 0)}
    \cup {Broken(f, IF f.type = "Block" THEN DamagedCell ELSE Damaged) :
              f \in {g \in MCGenuine : \/ g.type = "Manifest"
                                       \/ g.type = "Block" /\ g.index = 1}}

MCBlockCells == CellsOf("Block", MCFrames)
MCProofCells == CellsOf("Proof", MCFrames)
=============================================================================
