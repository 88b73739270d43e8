------------------------------- MODULE Escrow -------------------------------
(***************************************************************************)
(* apps/escrow/services.py: EscrowService and the rows it writes.           *)
(*                                                                          *)
(* Every EscrowService method runs in one database transaction that starts  *)
(* by locking the account's row (select_for_update), so each method is one  *)
(* action here.  A method that raises rolls its transaction back: nothing   *)
(* it wrote survives, and it is not an action, with one exception.          *)
(* release_funds raising FraudGateError is kept as the action               *)
(* ReleaseFlagged, because what the caller sees (the exception) and what    *)
(* the database holds (nothing) then differ.                                *)
(*                                                                          *)
(* Amounts are integers in ngwee (the columns have two decimals).           *)
(***************************************************************************)
EXTENDS Integers, EscrowStateMachine

CONSTANTS
  Accounts,    \* the order_refs an account can be created for (unique column)
  Amounts,     \* the amounts callers pass to hold_funds and partial_refund
  FeePercent,  \* DEFAULT_FEE_RATE, in percent
  MlScores,    \* the ml_risk_score values, in percent
  NoScore,     \* ml_risk_score is None
  MaxVersion   \* the largest value the version column (PositiveInteger) holds

ASSUME AmountsAssumption    == Amounts \subseteq Int
ASSUME FeePercentAssumption == FeePercent \in 0..100
ASSUME MaxVersionAssumption == MaxVersion \in Nat

VARIABLES
  account,  \* EscrowAccount rows: state, balance, version
  ledger,   \* LedgerEntry rows, summed: see LedgerSums
  hold,     \* EscrowHold rows: do they exist, gross, fee and net amount
  gateLog,  \* the verdicts of the FraudGateLog rows of each account
  raised    \* accounts whose last release_funds call raised FraudGateError

vars == <<account, ledger, hold, gateLog, raised>>

(* What an order_ref without an EscrowAccount row has for a state.          *)
Absent == "ABSENT"

Account == [state : EscrowState \cup {Absent}, balance : Nat, version : Nat]

(***************************************************************************)
(* The sums daily_reconciliation and finance read off the ledger: DEBIT     *)
(* rows by what they are for (payments received, refunds to the buyer,      *)
(* gross disbursements), all CREDIT rows, and balance_after of the rows     *)
(* written last.                                                            *)
(***************************************************************************)
LedgerSums == [received : Nat, refunded : Nat, released : Nat, credits : Nat,
               balanceAfter : Nat]

Hold == [exists : BOOLEAN, gross : Nat, fee : Nat, net : Nat]

TypeOK ==
  /\ account \in [Accounts -> Account]
  /\ ledger \in [Accounts -> LedgerSums]
  /\ hold \in [Accounts -> Hold]
  /\ gateLog \in [Accounts -> SUBSET {"CLEAR", "FREEZE"}]
  /\ raised \subseteq Accounts

Init ==
  /\ account = [a \in Accounts |->
                  [state |-> Absent, balance |-> 0, version |-> 0]]
  /\ ledger = [a \in Accounts |->
                  [received |-> 0, refunded |-> 0, released |-> 0,
                   credits |-> 0, balanceAfter |-> 0]]
  /\ hold = [a \in Accounts |->
                  [exists |-> FALSE, gross |-> 0, fee |-> 0, net |-> 0]]
  /\ gateLog = [a \in Accounts |-> {}]
  /\ raised = {}

-----------------------------------------------------------------------------
(* Helpers of the service.                                                  *)

(* The account's row exists and may move to target.                         *)
CanMove(a, target) ==
  account[a].state \in EscrowState /\ Validate(account[a].state, target)

(* account.save() after version += 1; the column overflows past MaxVersion. *)
Save(a, state, balance) ==
  /\ account[a].version < MaxVersion
  /\ account' = [account EXCEPT ![a] =
       [state |-> state, balance |-> balance, version |-> @.version + 1]]

(* The rows of one operation reach the ledger.                              *)
Post(a, received, refunded, released, credits, balanceAfter) ==
  ledger' = [ledger EXCEPT ![a] =
    [received     |-> @.received + received,
     refunded     |-> @.refunded + refunded,
     released     |-> @.released + released,
     credits      |-> @.credits + credits,
     balanceAfter |-> balanceAfter]]

(* _write_ledger_pair, for a payment received ...                           *)
PostReceipt(a, amount, newBalance) ==
  Post(a, amount, 0, 0, amount, newBalance)

(* Variant: the rows carry the balance before the movement.                 *)
PostRefundStale(a, amount, newBalance) ==
  Post(a, 0, amount, 0, amount, account[a].balance)

(* ... and for money that goes back to the buyer.                           *)
PostRefund(a, amount, newBalance) ==
  Post(a, 0, amount, 0, amount, newBalance)

(* Variant: ROUND_UP.                                                       *)
FeeRoundedUp(gross) == (gross * FeePercent + 99) \div 100

(* (gross * fee_rate).quantize(Decimal("0.01"), ROUND_HALF_UP)              *)
FeeOf(gross) == (gross * FeePercent + 50) \div 100

(* FRAUD_FREEZE_THRESHOLD, in percent.                                      *)
FraudFreezeThreshold == 65

(* _evaluate_fraud_gate: flags says whether rule_flags is non-empty.        *)
EvaluateFraudGate(flags, score) ==
  flags \/ (score # NoScore /\ score >= FraudFreezeThreshold)

-----------------------------------------------------------------------------
(* The operations of EscrowService.                                         *)

(* Methods other than release_funds never raise FraudGateError.             *)
Quiet(a) == raised' = raised \ {a}

CreateAccount(a) ==
  /\ account[a].state = Absent
  /\ account' = [account EXCEPT ![a] =
                   [state |-> "PENDING", balance |-> 0, version |-> 0]]
  /\ Quiet(a)
  /\ UNCHANGED <<ledger, hold, gateLog>>

(* Variant: the EscrowHold row is never written.                            *)
HoldFundsNoRow(a, amount) ==
  /\ amount > 0
  /\ CanMove(a, "HELD")
  /\ PostReceipt(a, amount, account[a].balance + amount)
  /\ Save(a, "HELD", account[a].balance + amount)
  /\ Quiet(a)
  /\ UNCHANGED <<hold, gateLog>>

HoldFunds(a, amount) ==
  /\ amount > 0
  /\ CanMove(a, "HELD")
  /\ PostReceipt(a, amount, account[a].balance + amount)
  /\ Save(a, "HELD", account[a].balance + amount)
  /\ hold' = [hold EXCEPT ![a] =
       [exists |-> TRUE, gross |-> amount, fee |-> @.fee, net |-> @.net]]
  /\ Quiet(a)
  /\ UNCHANGED gateLog

(* The methods that only move the state.                                    *)
SetState(a, target) ==
  /\ CanMove(a, target)
  /\ Save(a, target, account[a].balance)
  /\ Quiet(a)
  /\ UNCHANGED <<ledger, hold, gateLog>>

MarkInTransit(a) == SetState(a, "IN_TRANSIT")
MarkDelivered(a) == SetState(a, "DELIVERED")
RaiseDispute(a)  == SetState(a, "DISPUTED")

(* Variant: freeze forgets to validate the transition.                      *)
FreezeAnything(a) ==
  /\ account[a].state \in EscrowState
  /\ Save(a, "FROZEN", account[a].balance)
  /\ Quiet(a)
  /\ UNCHANGED <<ledger, hold, gateLog>>

Freeze(a) == SetState(a, "FROZEN")

(* release_funds up to the fraud gate.                                      *)
MayRelease(a) == CanMove(a, "RELEASED") /\ account[a].balance > 0

(* release_funds when the gate is clear: three ledger rows (DEBIT gross,    *)
(* CREDIT fee, CREDIT net), the amounts on the hold row if there is one.    *)
ReleaseFunds(a, flags, score) ==
  LET gross == account[a].balance
      fee   == FeeOf(gross)
      net   == gross - fee
  IN /\ MayRelease(a)
     /\ ~EvaluateFraudGate(flags, score)
     /\ gateLog' = [gateLog EXCEPT ![a] = @ \cup {"CLEAR"}]
     /\ Post(a, 0, 0, gross, fee + net, 0)
     /\ hold' = IF hold[a].exists
                   THEN [hold EXCEPT ![a] =
                     [exists |-> TRUE, gross |-> @.gross, fee |-> fee,
                      net |-> net]]
                   ELSE hold
     /\ Save(a, "RELEASED", 0)
     /\ Quiet(a)

(* release_funds when the gate is not clear.  It writes a FREEZE row and    *)
(* the state FROZEN and then raises inside its own transaction.atomic, so   *)
(* both writes are rolled back; the caller is left with the exception.      *)
ReleaseFlagged(a, flags, score) ==
  /\ MayRelease(a)
  /\ EvaluateFraudGate(flags, score)
  /\ raised' = raised \cup {a}
  /\ UNCHANGED <<account, ledger, hold, gateLog>>

(* Variant: the balance is not reset.                                       *)
RefundKeepsBalance(a) ==
  /\ CanMove(a, "REFUNDED")
  /\ PostRefund(a, account[a].balance, 0)
  /\ Save(a, "REFUNDED", account[a].balance)
  /\ Quiet(a)
  /\ UNCHANGED <<hold, gateLog>>

Refund(a) ==
  /\ CanMove(a, "REFUNDED")
  /\ IF account[a].balance > 0
       THEN PostRefund(a, account[a].balance, 0)
       ELSE UNCHANGED ledger
  /\ Save(a, "REFUNDED", 0)
  /\ Quiet(a)
  /\ UNCHANGED <<hold, gateLog>>

(* valid_sources of partial_refund, narrower than the transition table.     *)
PartialRefundSources == {"HELD", "DISPUTED", "PARTIALLY_REFUNDED"}

PartialRefund(a, amount) ==
  /\ amount > 0
  /\ amount <= account[a].balance
  /\ account[a].state \in PartialRefundSources
  /\ PostRefund(a, amount, account[a].balance - amount)
  /\ Save(a, "PARTIALLY_REFUNDED", account[a].balance - amount)
  /\ Quiet(a)
  /\ UNCHANGED <<hold, gateLog>>

Move(a) ==
  \/ MarkInTransit(a)
  \/ MarkDelivered(a)
  \/ RaiseDispute(a)
  \/ Freeze(a)

Release(a) ==
  \E flags \in BOOLEAN, score \in MlScores \cup {NoScore} :
    \/ ReleaseFunds(a, flags, score)
    \/ ReleaseFlagged(a, flags, score)

Next ==
  \E a \in Accounts :
    \/ CreateAccount(a)
    \/ \E amount \in Amounts : HoldFunds(a, amount)
    \/ Move(a)
    \/ Release(a)
    \/ Refund(a)
    \/ \E amount \in Amounts : PartialRefund(a, amount)

Spec == Init /\ [][Next]_vars

-----------------------------------------------------------------------------
(* Safety.                                                                  *)

(* What the account took in is what it still holds plus what went to the    *)
(* buyer plus what was disbursed: no interleaving of deposits, partial      *)
(* refunds, freezes, disputes and settlements creates or loses an ngwee.    *)
MoneyConserved ==
  \A a \in Accounts :
    ledger[a].received =
      account[a].balance + ledger[a].refunded + ledger[a].released

(* The denormalised balance column agrees with the newest ledger row, and   *)
(* debits equal credits (models.py, EscrowAccount.balance and LedgerEntry). *)
LedgerMatchesAccount ==
  \A a \in Accounts :
    /\ ledger[a].balanceAfter = account[a].balance
    /\ ledger[a].credits =
         ledger[a].received + ledger[a].refunded + ledger[a].released

(* The EscrowHold row, which the payout is later checked against, exists    *)
(* whenever money was disbursed and says what was: release_funds updates it *)
(* with a filter that may silently match no row.                            *)
PayoutOnRecord ==
  \A a \in Accounts :
    /\ hold[a].gross = ledger[a].received
    /\ hold[a].fee + hold[a].net = ledger[a].released
    /\ account[a].state = "RELEASED" =>
         hold[a].exists /\ ledger[a].released > 0

(* From payment to delivery the whole payment is in the account: there is   *)
(* no way back into these states from one that gives money out.             *)
FullCoverInFlight ==
  \A a \in Accounts :
    account[a].state \in {"HELD", "IN_TRANSIT", "DELIVERED"} =>
      account[a].balance > 0 /\ account[a].balance = ledger[a].received

(* A REFUNDED account has given the buyer everything it ever took in, the   *)
(* earlier partial refunds included, and the vendor nothing.                *)
RefundedInFull ==
  \A a \in Accounts :
    account[a].state = "REFUNDED" =>
      /\ ledger[a].refunded = ledger[a].received
      /\ ledger[a].released = 0

(* The platform's fee is the rate applied to what is disbursed, at most     *)
(* half an ngwee off, with ties rounded up; the vendor's share is not       *)
(* negative.                                                                *)
FeeWithinHalfNgwee ==
  \A a \in Accounts :
    account[a].state = "RELEASED" =>
      /\ 100 * hold[a].fee <= FeePercent * ledger[a].released + 50
      /\ FeePercent * ledger[a].released < 100 * hold[a].fee + 50
      /\ hold[a].net >= 0

(* A settled account never changes again, whatever is called on it.         *)
SettlementIsFinal ==
  [][\A a \in Accounts : account[a].state \in Terminal =>
       /\ account'[a] = account[a]
       /\ ledger'[a] = ledger[a]
       /\ hold'[a] = hold[a]]_vars

(* What release_funds documents: the account is FROZEN when FraudGateError  *)
(* is raised.                                                               *)
FlaggedReleaseFreezes ==
  \A a \in raised : account[a].state = "FROZEN"

-----------------------------------------------------------------------------
(* The promise of FundsCustody, read off the rows.                          *)

PhaseOf(a) ==
  IF account[a].state \in Terminal THEN "settled"
  ELSE IF ledger[a].received > 0 THEN "funded" ELSE "empty"

Custody == INSTANCE FundsCustody WITH
  Accounts   <- Accounts,
  Deposits   <- {amount \in Amounts : amount > 0},
  phase      <- [a \in Accounts |-> PhaseOf(a)],
  inCustody  <- [a \in Accounts |-> account[a].balance],
  toBuyer    <- [a \in Accounts |-> ledger[a].refunded],
  toVendor   <- [a \in Accounts |-> hold[a].net],
  toPlatform <- [a \in Accounts |-> hold[a].fee]

(* EscrowService implements FundsCustody.                                   *)
CustodySpec == Custody!Spec
=============================================================================
