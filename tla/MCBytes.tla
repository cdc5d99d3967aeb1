------------------------------ MODULE MCBytes -------------------------------
(***************************************************************************)
(* The pure code below the protocol: the frames, the digest, the tree and  *)
(* the leaves the seeder makes it of.  A behaviour is about one of them,   *)
(* the others keep still.                                                  *)
(***************************************************************************)
EXTENDS FrameCodec, Sha256Stream, SeederConstruct, MerkleClaims

VARIABLE part

(* Frames whose fields are at the edges of their bytes, and whose bytes are  *)
(* all different.                                                            *)

SomeHeaders ==
  {[type |-> t, session |-> 255, index |-> i, off |-> 22136, total |-> n] :
     t \in {1, 11}, i \in {0, 255, 256, 65535}, n \in {1, 4660}}

Starts ==
  {[block_size |-> 1024, block_count |-> c, payload_length |-> n, manifest_len |-> 192, sig_len |-> 64] :
     c \in {1, 65535}, n \in {0, 255, 65536, 305419896, 2147483647}}
Loads == {[total_len |-> n, offset |-> 16909060] : n \in {0, 65535, 65536, 305419896}}

SomeInfos ==
  {[kind |-> "start", start |-> s] : s \in Starts} \cup {[kind |-> "load", load |-> l] : l \in Loads}
    \cup {[kind |-> "data", data |-> <<7, 8, 9>>]}

(* Digests of messages of up to fifteen bytes, all different, in blocks of   *)
(* six bytes with a length of two.                                           *)

MaxMessage == 15
MaxUpdate == 13     \* one update may fill the buffer and two more blocks

Bytes == 0..255
Strings == {[k \in 1..n |-> i + k] : i \in 0..MaxMessage, n \in 0..MaxUpdate}

\* The updates that continue the message 1, 2, 3, ...
Continues == Len(message) <= MaxMessage /\ \A k \in DOMAIN message : message[k] = k

-----------------------------------------------------------------------------
MCInit ==
  /\ part \in {"frame", "digest", "leaves", "claim"}
  /\ ShaInit
  /\ IF part = "frame" THEN WireInit
     ELSE header \in {CHOOSE h \in Headers : TRUE} /\ info \in {CHOOSE i \in Infos : TRUE} /\ wire = <<>>
  /\ IF part = "leaves" THEN ConstructInit
     ELSE manifest_block_size = 1 /\ payload_len = 0 /\ off = 0 /\ leaves = <<>> /\ valid = TRUE
  /\ IF part = "claim" THEN ClaimInit
     ELSE /\ payload = <<<<[atom |-> 1]>>>> /\ block = payload[1]
          /\ index = 0 /\ proof = <<>> /\ edits = 0

MCNext ==
  \/ part = "frame" /\ CutFrame /\ UNCHANGED <<part, shaVars, constructVars, claimVars>>
  \/ part = "digest" /\ ShaNext /\ Continues' /\ UNCHANGED <<part, wireVars, constructVars, claimVars>>
  \/ part = "leaves" /\ ConstructNext /\ UNCHANGED <<part, wireVars, shaVars, claimVars>>
  \/ part = "claim" /\ ClaimNext /\ UNCHANGED <<part, wireVars, shaVars, constructVars>>

MCSpec == MCInit /\ [][MCNext]_<<part, wireVars, shaVars, constructVars, claimVars>>
=============================================================================
