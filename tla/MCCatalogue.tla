---------------------------- MODULE MCCatalogue -----------------------------
(* A store with its listings; see the README for the bounds.                *)
EXTENDS CatalogueProofs, TLC

(* Interchangeable, which is sound for invariants.                          *)
Same == Permutations(Requests)
=============================================================================
