------------------------- MODULE MCFrontendSession -------------------------
(***************************************************************************)
(* Instances of FrontendSession for TLC: two accounts of which one owns    *)
(* the contract, and two pipelines in flight.                              *)
(***************************************************************************)
EXTENDS FrontendSession

CONSTANTS owner, voter, p1, p2
=============================================================================
