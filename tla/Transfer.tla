------------------------------ MODULE Transfer ------------------------------
(***************************************************************************)
(* What a receiver promises its caller, without frames, fragments or       *)
(* trees: blocks of one signed package enter the journal one at a time,    *)
(* the transfer is done exactly when they are all there, and a restart     *)
(* keeps the journal or loses it whole.                                    *)
(***************************************************************************)
EXTENDS Naturals, Sequences

CONSTANTS
  Signed,    \* the signed manifests
  Payload    \* Payload[m]: the blocks of the package whose manifest is m

VARIABLES
  journal,   \* the journaled blocks, by index
  phase      \* "receiving", "done" or "refused"

Blocks(m) == 0..(m.block_count - 1)

\* Everything in the journal is of m's package.
Holds(m) ==
  \A i \in DOMAIN journal : i \in Blocks(m) /\ journal[i] = Payload[m][i + 1]

TransferInit == journal = [i \in {} |-> <<>>] /\ phase = "receiving"

Journal(m, i) ==
  /\ phase = "receiving"
  /\ Holds(m)
  /\ i \in Blocks(m) \ DOMAIN journal
  /\ journal' = [j \in DOMAIN journal \cup {i} |-> Payload[m][j + 1]]

\* The last block may end the transfer in the same step.
Store == /\ \E m \in Signed : \E i \in Blocks(m) : Journal(m, i)
         /\ UNCHANGED phase

StoreLast ==
  /\ \E m \in Signed : \E i \in Blocks(m) : Journal(m, i) /\ DOMAIN journal' = Blocks(m)
  /\ phase' = "done"

\* Nothing was missing (a resumed or an empty transfer).
Finish ==
  /\ phase = "receiving"
  /\ \E m \in Signed : Holds(m) /\ DOMAIN journal = Blocks(m)
  /\ phase' = "done"
  /\ UNCHANGED journal

Refuse == phase = "receiving" /\ phase' = "refused" /\ UNCHANGED journal

Restart ==
  /\ phase' = "receiving"
  /\ journal' \in {journal, [i \in {} |-> <<>>]}

TransferNext == Restart \/ Refuse \/ Finish \/ Store \/ StoreLast

TransferSpec == TransferInit /\ [][TransferNext]_<<journal, phase>>

=============================================================================
