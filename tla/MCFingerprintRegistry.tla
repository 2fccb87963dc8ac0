------------------------ MODULE MCFingerprintRegistry ------------------------
(* Symmetry for the runs of FingerprintRegistry.                           *)
EXTENDS FingerprintRegistry, TLC

SiteSymmetry == Permutations(Sites) \union Permutations(Fingerprints)
=============================================================================
