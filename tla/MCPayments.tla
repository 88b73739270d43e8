----------------------------- MODULE MCPayments -----------------------------
(* Bounds: see the README; no ML scores are passed by these callers.        *)
EXTENDS PaymentsProofs

NoScores == {}
=============================================================================
