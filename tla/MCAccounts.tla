----------------------------- MODULE MCAccounts -----------------------------
(* Two users, two cards that either may hand in, two requests at a time.    *)
EXTENDS AccountsProofs, TLC

(* Interchangeable, which is sound for invariants.                          *)
Slots == Permutations(Users) \cup Permutations(Nrcs) \cup Permutations(Requests)
=============================================================================
