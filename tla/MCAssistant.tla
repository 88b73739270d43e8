---------------------------- MODULE MCAssistant -----------------------------
(* Two queries of one buyer; see the README for the bounds.                 *)
EXTENDS AssistantProofs, TLC

MCQuantities == {-2, 0, 1}

(* The queries are interchangeable, which is sound for invariants.                          *)
Same == Permutations(Queries)
=============================================================================
