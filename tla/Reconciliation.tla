--------------------------- MODULE Reconciliation ---------------------------
(***************************************************************************)
(* apps/escrow/tasks.py: what daily_reconciliation makes of the rows that   *)
(* EscrowService writes, when nothing changes while it runs.                *)
(***************************************************************************)
EXTENDS Escrow

(* Every state but RELEASED and REFUNDED is checked.                        *)
Active(a) == account[a].state \in EscrowState \ Terminal

(* Sum of the DEBIT rows; every operation writes its debit and its credit   *)
(* under the same account.                                                  *)
DebitSum(a) == ledger[a].received + ledger[a].refunded + ledger[a].released

ExpectedBalance(a) == DebitSum(a) - ledger[a].credits

Discrepancies ==
  {a \in Accounts : Active(a) /\ ExpectedBalance(a) # account[a].balance}

-----------------------------------------------------------------------------
(* What the report comes to: it lists exactly the open accounts that hold   *)
(* money, for the two sides of every double entry are kept under one        *)
(* account and cancel out.  It should list the accounts whose balance is    *)
(* not what the ledger says (its docstring), and test_reconciliation.py     *)
(* expects PASS for an account that holds money.                            *)
ReportListsHeldMoney ==
  Discrepancies = {a \in Accounts : Active(a) /\ account[a].balance > 0}
=============================================================================
