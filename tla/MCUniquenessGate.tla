--------------------------- MODULE MCUniquenessGate ---------------------------
(* Fingerprints, tenants and symmetry for the runs of UniquenessGate.      *)
EXTENDS UniquenessGate, TLC

Page(prims, chars) == [prims |-> prims, chars |-> chars]

\* Three pages at distance 0 and 2, the threshold of the run, from each other,
\* and a fourth far from them.
Pages == {Page(<<"hero", "list">>, 1), Page(<<"list", "hero">>, 1), Page(<<"hero">>, 1),
          Page(<<"image", "form">>, 5)}

OneTenant == [s \in Sites |-> "acme"]
Assets == {"image", "form"}
SiteSymmetry == Permutations(Sites)
=============================================================================
