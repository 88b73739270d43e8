--------------------------- MODULE MCAutoConfirm ---------------------------
(* Two workers; the verdict of the fraud gate comes from rule flags only.   *)
EXTENDS AutoConfirm

NoScores == {}
=============================================================================
