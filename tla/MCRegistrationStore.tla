------------------------ MODULE MCRegistrationStore ------------------------
(***************************************************************************)
(* Instances of RegistrationStore for TLC: three commitments of which two  *)
(* come from one source, so that the per-source cap of one bites.          *)
(***************************************************************************)
EXTENDS RegistrationStore, TLC

CONSTANTS c1, c2, c3, here, there

MCSourceOf == c1 :> here @@ c2 :> here @@ c3 :> there
MCSourceOf2 == c1 :> here @@ c2 :> there

InodeSymmetry == Permutations(Inode)
=============================================================================
