------------------------------ MODULE MCEscrow ------------------------------
(* Two accounts; amounts that make the fee round down, tie and round up.    *)
EXTENDS EscrowProofs, Reconciliation

(* 10 -> a fee of exactly half an ngwee, 11 -> 0.55, 9 -> 0.45; 0 is        *)
(* refused by hold_funds and partial_refund.                                *)
AmountsMC == {0, 9, 10, 11}

(* One score on each side of the threshold.                                 *)
MlScoresMC == {64, 65}
=============================================================================
