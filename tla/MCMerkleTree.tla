---------------------------- MODULE MCMerkleTree ----------------------------
(***************************************************************************)
(* An instance of MerkleTree for TLC: three levels, so that a path has a   *)
(* first, an inner and a last step; Poseidon is a free constructor.        *)
(***************************************************************************)
EXTENDS MerkleTree

CONSTANTS c1, c2

MCHash(a, b) == <<a, b>>
MCWidth == [k \in 0..DEPTH |-> 2 ^ (DEPTH - k)]

Empty == <<ZERO, ZERO>>

\* Leaves, and nodes of every level below the root.
MCClaim == {c1, c2, ZERO, <<c1, c2>>, Empty, <<Empty, Empty>>}
=============================================================================
