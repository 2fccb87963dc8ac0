---------------------------- MODULE MCChainVerify ----------------------------
(* Model values and symmetry for the runs of ChainVerify. *)
EXTENDS ChainVerify

BuilderSymmetry  == Permutations(Builders)
AttesterSymmetry == Permutations(Attesters)
=============================================================================
