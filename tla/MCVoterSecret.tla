--------------------------- MODULE MCVoterSecret ---------------------------
(***************************************************************************)
(* Instances of VoterSecret for TLC: two accounts; the voter comes with a  *)
(* backup of a1's random secret, one of a2's derived secret, or a paste    *)
(* that is no backup.                                                      *)
(***************************************************************************)
EXTENDS VoterSecret, TLC

CONSTANTS a1, a2

MCBackup == {[made |-> "random", by |-> a1], [made |-> "derived", by |-> a2], Corrupt}

TaskSymmetry == Permutations(Task)
=============================================================================
