-------------------------- MODULE MCVotingManager --------------------------
(***************************************************************************)
(* Instances of VotingManager for TLC: two voters, a whitelist of both and *)
(* one of the second only, so that a proof for the wrong whitelist exists. *)
(***************************************************************************)
EXTENDS VotingManagerBallotBox, TLC

CONSTANTS s1, s2, tBoth, tOne

MCMembers == tBoth :> {s1, s2} @@ tOne :> {s2}

AccountSymmetry == Permutations(Account)
=============================================================================
