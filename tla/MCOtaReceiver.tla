--------------------------- MODULE MCOtaReceiver ---------------------------
(***************************************************************************)
(* The receiver on a small channel: the frames a seeder cuts from two      *)
(* packages of one geometry that share their first block, some of them     *)
(* damaged, the START of a shorter package, and frames of another session. *)
(***************************************************************************)
EXTENDS OneRelease, MCPackages

\* Two blocks, the last one short, in blocks of two cells.
Blocks1 == <<<<Cell("a"), Cell("b")>>, <<Cell("c")>>>>
Blocks2 == <<<<Cell("a"), Cell("b")>>, <<Cell("d")>>>>

\* A manifest whose bytes were changed is signed by nobody.
Changed == [ManifestOf(Blocks1) EXCEPT !.block_count = 1]

MCSigned == {ManifestOf(Blocks1), ManifestOf(Blocks2)}
MCManifests == MCSigned \cup {Changed}
MCPayload == [m \in MCSigned |-> IF m = ManifestOf(Blocks1) THEN Blocks1 ELSE Blocks2]

Packages == {PackageOf(Blocks1), PackageOf(Blocks2)}
ManifestFragments == UNION {ManifestUnit(p) : p \in Packages}
BlockFragments == UNION {BlockUnits(p) : p \in Packages}
ProofFragments == UNION {ProofUnits(p) : p \in Packages}

\* A proof whose length is no multiple of a digest's, and both halves of a block
\* the payload does not have.
OddProof == MakeFrame("Proof", Session, 0, 0, 1, <<DamagedCell>>)
Beyond == {MakeFrame("Block", Session, 2, 0, 1, <<DamagedCell>>),
           SimpleFrame("Proof", Session, 2)}

\* The hints of a package of the first block alone.
OtherStart == StartOf(PackageOf(<<Blocks1[1]>>))

MCFrames ==
  UNION {StartOf(PackageOf(Blocks1)), OtherStart, ManifestFragments, BlockFragments, ProofFragments,
         {Broken(f, Changed) : f \in {g \in ManifestFragments : g.off = 0}},
         {Broken(f, Damaged) : f \in {g \in ManifestFragments : g.off = 1}},
         {Broken(f, DamagedCell) : f \in {g \in BlockFragments : g.index = 1}},
         {Broken(f, DamagedCell) : f \in {g \in ProofFragments : g.index = 0 /\ g.off = 0}},
         {OddProof, LongFragment}, Beyond,
         {SimpleFrame("Abort", Session, 0), SimpleFrame("Done", Session, 0),
          SimpleFrame("Abort", Session + 1, 0)}}

MCBlockCells == CellsOf("Block", MCFrames)
MCProofCells == CellsOf("Proof", MCFrames)
=============================================================================
