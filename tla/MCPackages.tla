----------------------------- MODULE MCPackages -----------------------------
(***************************************************************************)
(* Small packages and the frames a seeder cuts from them, for the modules  *)
(* that check the receiver.                                                *)
(***************************************************************************)
EXTENDS OtaReceiver, SequencesExt

CONSTANT FragmentSize   \* the cells of a fragment

Cell(name) == [atom |-> name]
DamagedCell == Cell("damaged")

PayloadCells(blocks) == FlattenSeq(blocks)

\* The signed manifest of a payload cut into blocks.
ManifestOf(blocks) ==
  [block_size |-> Len(blocks[1]), block_count |-> Len(blocks),
   payload_length |-> Len(PayloadCells(blocks)),
   payload_merkle_root |->
     merkle_root([i \in 1..Len(blocks) |-> hash_leaf(blocks[i])])]

PackageOf(blocks) ==
  [manifest |-> ManifestOf(blocks), signature |-> SignatureOf(ManifestOf(blocks)),
   payload |-> PayloadCells(blocks)]

Seeder(package) == INSTANCE OtaSeeder WITH Package <- package, done <- complete, sent <- out

StartOf(package) == ToSet(Seeder(package)!StartFrames)

ManifestUnit(package) == ToSet(Seeder(package)!ManifestFrames)

BlockUnits(package) ==
  UNION {ToSet(Seeder(package)!BlockFrames(i)) : i \in 0..(package.manifest.block_count - 1)}

ProofUnits(package) ==
  UNION {ToSet(Seeder(package)!ProofFrames(i)) : i \in 0..(package.manifest.block_count - 1)}

\* A fragment whose bytes were changed.
Broken(f, cell) == [f EXCEPT !.data = <<cell>>]

\* A fragment that is longer than the unit its header claims.
LongFragment == MakeFrame("Block", Session, 0, 0, 0, <<DamagedCell>>)

\* The cells that frames of one type carry.
CellsOf(type, frames) == UNION {ToSet(f.data) : f \in {g \in frames : g.type = type}}
=============================================================================
