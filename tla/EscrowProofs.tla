---------------------------- MODULE EscrowProofs ----------------------------
(***************************************************************************)
(* Proofs about Escrow, for any set of accounts, any amounts, any fee rate  *)
(* and any width of the version column.                                     *)
(*                                                                          *)
(* The safety properties of Escrow are not inductive one by one: that a     *)
(* RELEASED account has a hold row needs that money never arrives without   *)
(* one, that a REFUNDED account paid the vendor nothing needs that nothing  *)
(* is disbursed before RELEASED, and all of them need that an account takes *)
(* money only once, out of PENDING.  Books(a) is the strengthening, one     *)
(* account at a time, because no operation touches two accounts.            *)
(***************************************************************************)
EXTENDS Reconciliation, TLAPS

Unpaid == {Absent, "PENDING"}

InFlight == {"HELD", "IN_TRANSIT", "DELIVERED"}

Books(a) ==
  /\ ledger[a].received =
       account[a].balance + ledger[a].refunded + ledger[a].released
  /\ ledger[a].balanceAfter = account[a].balance
  /\ ledger[a].credits =
       ledger[a].received + ledger[a].refunded + ledger[a].released
  /\ hold[a].gross = ledger[a].received
  /\ hold[a].fee + hold[a].net = ledger[a].released
  /\ ledger[a].received > 0 => hold[a].exists
  /\ account[a].state \in Unpaid => ledger[a].received = 0
  /\ account[a].state \in InFlight =>
       account[a].balance > 0 /\ account[a].balance = ledger[a].received
  /\ account[a].state \in Terminal => account[a].balance = 0
  /\ account[a].state = "RELEASED" <=> ledger[a].released > 0
  /\ account[a].state = "RELEASED" =>
       /\ 100 * hold[a].fee <= FeePercent * ledger[a].released + 50
       /\ FeePercent * ledger[a].released < 100 * hold[a].fee + 50

(* The inductive invariant.                                                 *)
IInv == TypeOK /\ \A a \in Accounts : Books(a)

-----------------------------------------------------------------------------
(* The operators the model is built from.                                   *)

(* Where the state machine lets an account come from.                       *)
LEMMA Sources ==
  ASSUME NEW s \in EscrowState
  PROVE  /\ Validate(s, "HELD") => s = "PENDING"
         /\ Validate(s, "IN_TRANSIT") => s = "HELD"
         /\ Validate(s, "DELIVERED") => s = "IN_TRANSIT"
         /\ \A t : Validate(s, t) => s \notin Terminal
         /\ Validate(s, "RELEASED") => s # "PENDING"
         /\ Validate(s, "REFUNDED") => s # "PENDING"
         /\ Validate(s, "DISPUTED") => s # "PENDING"
BY DEF Validate, Transitions, EscrowState, Terminal

(* The fee of an amount is a whole number of ngwee, no more than the amount *)
(* itself and at most half an ngwee from the exact rate.                    *)
LEMMA FeeBounds ==
  ASSUME NEW gross \in Nat
  PROVE  /\ FeeOf(gross) \in Nat
         /\ FeeOf(gross) <= gross
         /\ 100 * FeeOf(gross) <= FeePercent * gross + 50
         /\ FeePercent * gross < 100 * FeeOf(gross) + 50
<1> DEFINE exact == gross * FeePercent
<1>1. FeePercent \in Nat /\ FeePercent <= 100
  BY FeePercentAssumption
<1>2. exact \in Nat /\ exact = FeePercent * gross
  BY <1>1
<1>3. exact <= 100 * gross
  BY <1>1
<1> HIDE DEF exact
<1>4. \A q : q = (exact + 50) \div 100 =>
        q \in Nat /\ 100 * q <= exact + 50 /\ exact + 50 < 100 * q + 100
  BY <1>2
<1>5. FeeOf(gross) = (exact + 50) \div 100
  BY DEF FeeOf, exact
<1> QED
  BY <1>2, <1>3, <1>4, <1>5

-----------------------------------------------------------------------------
(* Type correctness.                                                        *)

LEMMA TypeInit == Init => TypeOK
BY DEF Init, TypeOK, Account, LedgerSums, Hold, Absent

LEMMA TypeStep == TypeOK /\ [Next]_vars => TypeOK'
<1> SUFFICES ASSUME TypeOK, [Next]_vars
             PROVE  TypeOK'
  OBVIOUS
<1> USE DEF TypeOK, Account, LedgerSums, Hold, Quiet
<1>1. CASE UNCHANGED vars
  BY <1>1 DEF vars
<1>2. CASE Next
  <2> PICK a \in Accounts :
        \/ CreateAccount(a)
        \/ \E amount \in Amounts : HoldFunds(a, amount)
        \/ Move(a)
        \/ Release(a)
        \/ Refund(a)
        \/ \E amount \in Amounts : PartialRefund(a, amount)
    BY <1>2 DEF Next
  <2>1. CASE CreateAccount(a)
    BY <2>1 DEF CreateAccount, EscrowState
  <2>2. ASSUME NEW amount \in Amounts, HoldFunds(a, amount)
        PROVE  TypeOK'
    <3>1. amount \in Nat
      BY <2>2, AmountsAssumption DEF HoldFunds
    <3> QED
      BY <2>2, <3>1 DEF HoldFunds, Save, PostReceipt, Post, EscrowState
  <2>3. CASE Move(a)
    BY <2>3 DEF Move, MarkInTransit, MarkDelivered, RaiseDispute, Freeze,
                SetState, Save, EscrowState
  <2>4. CASE Release(a)
    <3> PICK flags \in BOOLEAN, score \in MlScores \cup {NoScore} :
          ReleaseFunds(a, flags, score) \/ ReleaseFlagged(a, flags, score)
      BY <2>4 DEF Release
    <3>1. CASE ReleaseFunds(a, flags, score)
      <4> DEFINE gross == account[a].balance
                 fee   == FeeOf(gross)
      <4>1. gross \in Nat /\ fee \in Nat /\ gross - fee \in Nat
        BY FeeBounds
      <4>2. account' \in [Accounts -> Account]
        BY <3>1 DEF ReleaseFunds, Save, EscrowState
      <4>3. ledger' \in [Accounts -> LedgerSums]
        BY <3>1, <4>1 DEF ReleaseFunds, Post
      <4>4. hold' \in [Accounts -> Hold]
        BY <3>1, <4>1 DEF ReleaseFunds
      <4>5. gateLog' \in [Accounts -> SUBSET {"CLEAR", "FREEZE"}]
        BY <3>1 DEF ReleaseFunds
      <4>6. raised' \subseteq Accounts
        BY <3>1 DEF ReleaseFunds
      <4> QED
        BY <4>2, <4>3, <4>4, <4>5, <4>6
    <3>2. CASE ReleaseFlagged(a, flags, score)
      BY <3>2 DEF ReleaseFlagged
    <3> QED
      BY <3>1, <3>2
  <2>5. CASE Refund(a)
    BY <2>5 DEF Refund, Save, PostRefund, Post, EscrowState
  <2>6. ASSUME NEW amount \in Amounts, PartialRefund(a, amount)
        PROVE  TypeOK'
    <3>1. amount \in Nat /\ account[a].balance - amount \in Nat
      BY <2>6, AmountsAssumption DEF PartialRefund
    <3> QED
      BY <2>6, <3>1 DEF PartialRefund, Save, PostRefund, Post, EscrowState
  <2> QED
    BY <2>1, <2>2, <2>3, <2>4, <2>5, <2>6
<1> QED
  BY <1>1, <1>2

(* Whatever callers do, the rows keep their types: no operation stores a    *)
(* negative balance, fee, net amount or ledger sum.                         *)
THEOREM TypeCorrect == Spec => []TypeOK
<1>1. Init => TypeOK
  BY TypeInit
<1>2. TypeOK /\ [Next]_vars => TypeOK'
  BY TypeStep
<1> QED
  BY <1>1, <1>2, PTL DEF Spec

-----------------------------------------------------------------------------
(* The inductive invariant.                                                 *)

LEMMA BooksInit == Init => IInv
<1> SUFFICES ASSUME Init, NEW a \in Accounts
             PROVE  Books(a)
  BY TypeInit DEF IInv
<1> QED
  BY DEF Init, Books, Unpaid, InFlight, Terminal, Absent

(* An operation on one account leaves the books of the others alone.        *)
LEMMA BooksOfOthers ==
  ASSUME NEW b \in Accounts, Books(b),
         account'[b] = account[b], ledger'[b] = ledger[b], hold'[b] = hold[b]
  PROVE  Books(b)'
BY DEF Books

(* An operation that only moves the state keeps the books when the source   *)
(* and the target are of one kind, or the target makes no claim on them.    *)
LEMMA BooksSetState ==
  ASSUME TypeOK, NEW a \in Accounts, Books(a), Move(a)
  PROVE  Books(a)'
<1> USE DEF TypeOK, Account, LedgerSums, Hold, SetState, Save, CanMove
<1>1. CASE MarkInTransit(a)
  <2>1. account[a].state = "HELD"
    BY <1>1, Sources DEF MarkInTransit
  <2> QED
    BY <1>1, <2>1 DEF MarkInTransit, Books, Unpaid, InFlight, Terminal, Absent
<1>2. CASE MarkDelivered(a)
  <2>1. account[a].state = "IN_TRANSIT"
    BY <1>2, Sources DEF MarkDelivered
  <2> QED
    BY <1>2, <2>1 DEF MarkDelivered, Books, Unpaid, InFlight, Terminal, Absent
<1>3. CASE RaiseDispute(a)
  <2>1. account[a].state \notin Terminal
    BY <1>3, Sources DEF RaiseDispute
  <2> QED
    BY <1>3, <2>1 DEF RaiseDispute, Books, Unpaid, InFlight, Terminal, Absent
<1>4. CASE Freeze(a)
  <2>1. account[a].state \notin Terminal
    BY <1>4, Sources DEF Freeze
  <2> QED
    BY <1>4, <2>1 DEF Freeze, Books, Unpaid, InFlight, Terminal, Absent
<1> QED
  BY <1>1, <1>2, <1>3, <1>4 DEF Move

LEMMA BooksHoldFunds ==
  ASSUME TypeOK, NEW a \in Accounts, NEW amount \in Amounts, Books(a),
         HoldFunds(a, amount)
  PROVE  Books(a)'
<1> USE DEF TypeOK, Account, LedgerSums, Hold
<1>1. amount \in Nat \ {0}
  BY AmountsAssumption DEF HoldFunds
<1>2. account[a].state = "PENDING"
  BY Sources DEF HoldFunds, CanMove
<1>3. /\ account[a].balance = 0 /\ ledger[a].received = 0
      /\ ledger[a].refunded = 0 /\ ledger[a].released = 0
  BY <1>2 DEF Books, Unpaid
<1>4. account'[a].state = "HELD" /\ account'[a].balance = amount
  BY <1>1, <1>3 DEF HoldFunds, Save
<1>5. ledger'[a] = [received |-> amount, refunded |-> 0, released |-> 0,
                    credits |-> amount, balanceAfter |-> amount]
  BY <1>1, <1>3 DEF HoldFunds, PostReceipt, Post, Books
<1>6. /\ hold'[a].exists /\ hold'[a].gross = amount
      /\ hold'[a].fee = hold[a].fee /\ hold'[a].net = hold[a].net
  BY DEF HoldFunds
<1> QED
  BY <1>1, <1>3, <1>4, <1>5, <1>6 DEF Books, Unpaid, InFlight, Terminal, Absent

LEMMA BooksRelease ==
  ASSUME TypeOK, NEW a \in Accounts, Books(a),
         NEW flags \in BOOLEAN, NEW score, ReleaseFunds(a, flags, score)
  PROVE  Books(a)'
<1> DEFINE gross == account[a].balance
           fee   == FeeOf(gross)
<1> USE DEF TypeOK, Account, LedgerSums, Hold
<1>1. /\ gross \in Nat /\ gross > 0 /\ fee \in Nat /\ gross - fee \in Nat
      /\ 100 * fee <= FeePercent * gross + 50
      /\ FeePercent * gross < 100 * fee + 50
  BY FeeBounds DEF ReleaseFunds, MayRelease
<1>2. account[a].state # "RELEASED" /\ ledger[a].released = 0
  BY Sources DEF ReleaseFunds, MayRelease, CanMove, Books, Terminal
<1>3. hold[a].exists
  BY <1>1 DEF Books
<1>4. account'[a].state = "RELEASED" /\ account'[a].balance = 0
  BY DEF ReleaseFunds, Save
<1>5. ledger'[a] = [received     |-> ledger[a].received,
                    refunded     |-> ledger[a].refunded,
                    released     |-> gross,
                    credits      |-> ledger[a].credits + gross,
                    balanceAfter |-> 0]
  <2>1. ledger[a].released + gross = gross
    BY <1>1, <1>2
  <2>2. ledger[a].credits + (fee + (gross - fee)) = ledger[a].credits + gross
    BY <1>1
  <2> HIDE DEF fee
  <2>3. /\ ledger[a].received + 0 = ledger[a].received
        /\ ledger[a].refunded + 0 = ledger[a].refunded
    OBVIOUS
  <2> QED
    BY <2>1, <2>2, <2>3 DEF ReleaseFunds, Post, fee
<1>6. hold'[a] = [exists |-> TRUE, gross |-> hold[a].gross,
                  fee |-> fee, net |-> gross - fee]
  BY <1>3 DEF ReleaseFunds
<1> HIDE DEF fee
<1> QED
  BY <1>1, <1>2, <1>3, <1>4, <1>5, <1>6
  DEF Books, Unpaid, InFlight, Terminal, Absent

LEMMA BooksRefund ==
  ASSUME TypeOK, NEW a \in Accounts, Books(a), Refund(a)
  PROVE  Books(a)'
<1> USE DEF TypeOK, Account, LedgerSums, Hold
<1>1. account[a].state \notin Terminal
  BY Sources DEF Refund, CanMove
<1>2. account'[a].state = "REFUNDED" /\ account'[a].balance = 0
  BY DEF Refund, Save
<1>3. /\ ledger'[a].received = ledger[a].received
      /\ ledger'[a].refunded = ledger[a].refunded + account[a].balance
      /\ ledger'[a].released = ledger[a].released
      /\ ledger'[a].credits = ledger[a].credits + account[a].balance
      /\ ledger'[a].balanceAfter = 0
  <2>1. CASE account[a].balance > 0
    BY <2>1 DEF Refund, PostRefund, Post
  <2>2. CASE ~(account[a].balance > 0)
    BY <2>2 DEF Refund, Books
  <2> QED
    BY <2>1, <2>2
<1>4. hold'[a] = hold[a]
  BY DEF Refund
<1> QED
  BY <1>1, <1>2, <1>3, <1>4 DEF Books, Unpaid, InFlight, Terminal, Absent

LEMMA BooksPartialRefund ==
  ASSUME TypeOK, NEW a \in Accounts, NEW amount \in Amounts, Books(a),
         PartialRefund(a, amount)
  PROVE  Books(a)'
<1> USE DEF TypeOK, Account, LedgerSums, Hold
<1>1. amount \in Nat /\ amount > 0 /\ amount <= account[a].balance
  BY AmountsAssumption DEF PartialRefund
<1>2. account[a].state \notin Terminal
  BY DEF PartialRefund, PartialRefundSources, Terminal
<1>3. /\ account'[a].state = "PARTIALLY_REFUNDED"
      /\ account'[a].balance = account[a].balance - amount
  BY DEF PartialRefund, Save
<1>4. /\ ledger'[a].received = ledger[a].received
      /\ ledger'[a].refunded = ledger[a].refunded + amount
      /\ ledger'[a].released = ledger[a].released
      /\ ledger'[a].credits = ledger[a].credits + amount
      /\ ledger'[a].balanceAfter = account[a].balance - amount
  BY <1>1 DEF PartialRefund, PostRefund, Post
<1>5. hold'[a] = hold[a]
  BY DEF PartialRefund
<1>6. account[a].state \notin Unpaid
  BY DEF PartialRefund, PartialRefundSources, Unpaid, Absent
<1> QED
  BY <1>1, <1>2, <1>3, <1>4, <1>5, <1>6
  DEF Books, Unpaid, InFlight, Terminal, Absent

(* A step touches the rows of one account.                                  *)
OnlyTouches(a) ==
  \A b \in Accounts \ {a} : /\ account'[b] = account[b]
                            /\ ledger'[b] = ledger[b]
                            /\ hold'[b] = hold[b]

LEMMA OneAccountAtATime ==
  ASSUME TypeOK, Next
  PROVE  \E a \in Accounts :
           /\ OnlyTouches(a)
           /\ \/ CreateAccount(a)
              \/ \E amount \in Amounts : HoldFunds(a, amount)
              \/ Move(a)
              \/ \E flags \in BOOLEAN, score \in MlScores \cup {NoScore} :
                   ReleaseFunds(a, flags, score)
              \/ UNCHANGED <<account, ledger, hold>>
              \/ Refund(a)
              \/ \E amount \in Amounts : PartialRefund(a, amount)
<1> PICK a \in Accounts :
      \/ CreateAccount(a)
      \/ \E amount \in Amounts : HoldFunds(a, amount)
      \/ Move(a)
      \/ Release(a)
      \/ Refund(a)
      \/ \E amount \in Amounts : PartialRefund(a, amount)
  BY DEF Next
<1> USE DEF TypeOK, OnlyTouches, Save, Post
<1>1. CASE CreateAccount(a)
  BY <1>1 DEF CreateAccount
<1>2. ASSUME NEW amount \in Amounts, HoldFunds(a, amount)
      PROVE  OnlyTouches(a)
  BY <1>2 DEF HoldFunds, PostReceipt
<1>3. ASSUME Move(a)
      PROVE  OnlyTouches(a)
  BY <1>3 DEF Move, MarkInTransit, MarkDelivered, RaiseDispute, Freeze,
              SetState
<1>4. ASSUME NEW flags \in BOOLEAN, NEW score \in MlScores \cup {NoScore},
             ReleaseFunds(a, flags, score)
      PROVE  OnlyTouches(a)
  BY <1>4 DEF ReleaseFunds
<1>5. ASSUME NEW flags \in BOOLEAN, NEW score \in MlScores \cup {NoScore},
             ReleaseFlagged(a, flags, score)
      PROVE  OnlyTouches(a) /\ UNCHANGED <<account, ledger, hold>>
  BY <1>5 DEF ReleaseFlagged
<1>6. ASSUME Refund(a)
      PROVE  OnlyTouches(a)
  BY <1>6 DEF Refund, PostRefund
<1>7. ASSUME NEW amount \in Amounts, PartialRefund(a, amount)
      PROVE  OnlyTouches(a)
  BY <1>7 DEF PartialRefund, PostRefund
<1> HIDE DEF OnlyTouches
<1> QED
  BY <1>1, <1>2, <1>3, <1>4, <1>5, <1>6, <1>7 DEF Release

LEMMA BooksStep == IInv /\ [Next]_vars => IInv'
<1> SUFFICES ASSUME IInv, [Next]_vars
             PROVE  IInv'
  OBVIOUS
<1>1. TypeOK /\ TypeOK'
  BY TypeStep DEF IInv
<1>2. CASE UNCHANGED vars
  BY <1>1, <1>2 DEF vars, IInv, Books
<1>3. CASE Next
  <2> PICK a \in Accounts :
        /\ OnlyTouches(a)
        /\ \/ CreateAccount(a)
           \/ \E amount \in Amounts : HoldFunds(a, amount)
           \/ Move(a)
           \/ \E flags \in BOOLEAN, score \in MlScores \cup {NoScore} :
                ReleaseFunds(a, flags, score)
           \/ UNCHANGED <<account, ledger, hold>>
           \/ Refund(a)
           \/ \E amount \in Amounts : PartialRefund(a, amount)
    BY <1>1, <1>3, OneAccountAtATime
  <2>0. Books(a)
    BY DEF IInv
  <2>1. CASE CreateAccount(a)
    <3>1. account[a].state = Absent
      BY <2>1 DEF CreateAccount
    <3>2. /\ account'[a].state = "PENDING" /\ account'[a].balance = 0
          /\ ledger' = ledger /\ hold' = hold
      BY <1>1, <2>1 DEF CreateAccount, TypeOK
    <3> QED
      <4>1. Books(a)'
        BY <1>1, <2>0, <3>1, <3>2
        DEF Books, TypeOK, Account, LedgerSums, Hold, Unpaid, InFlight,
            Terminal, Absent
      <4> QED
        BY <1>1, <4>1, BooksOfOthers DEF IInv, OnlyTouches
  <2>2. ASSUME NEW amount \in Amounts, HoldFunds(a, amount)
        PROVE  Books(a)'
    BY <1>1, <2>0, <2>2, BooksHoldFunds
  <2>3. ASSUME Move(a)
        PROVE  Books(a)'
    BY <1>1, <2>0, <2>3, BooksSetState
  <2>4. ASSUME NEW flags \in BOOLEAN, NEW score, ReleaseFunds(a, flags, score)
        PROVE  Books(a)'
    BY <1>1, <2>0, <2>4, BooksRelease
  <2>5. ASSUME UNCHANGED <<account, ledger, hold>>
        PROVE  Books(a)'
    BY <2>0, <2>5 DEF Books
  <2>6. ASSUME Refund(a)
        PROVE  Books(a)'
    BY <1>1, <2>0, <2>6, BooksRefund
  <2>7. ASSUME NEW amount \in Amounts, PartialRefund(a, amount)
        PROVE  Books(a)'
    BY <1>1, <2>0, <2>7, BooksPartialRefund
  <2>8. ASSUME Books(a)'
        PROVE  IInv'
    BY <1>1, <2>8, BooksOfOthers DEF IInv, OnlyTouches
  <2> QED
    BY <2>1, <2>2, <2>3, <2>4, <2>5, <2>6, <2>7, <2>8
<1> QED
  BY <1>2, <1>3

(* The books of every account are kept, whatever the interleaving.          *)
THEOREM BooksKept == Spec => []IInv
<1> QED
  BY BooksInit, BooksStep, PTL DEF Spec

-----------------------------------------------------------------------------
(* The properties of Escrow.                                                *)

LEMMA BooksImply ==
  IInv => /\ MoneyConserved /\ LedgerMatchesAccount /\ PayoutOnRecord
          /\ FullCoverInFlight /\ RefundedInFull /\ FeeWithinHalfNgwee
<1> SUFFICES ASSUME IInv
             PROVE  /\ MoneyConserved /\ LedgerMatchesAccount /\ PayoutOnRecord
                    /\ FullCoverInFlight /\ RefundedInFull /\ FeeWithinHalfNgwee
  OBVIOUS
<1> USE DEF IInv, TypeOK, Account, LedgerSums, Hold, Books
<1>1. MoneyConserved /\ LedgerMatchesAccount
  BY DEF MoneyConserved, LedgerMatchesAccount
<1>2. PayoutOnRecord
  BY DEF PayoutOnRecord
<1>3. FullCoverInFlight
  BY DEF FullCoverInFlight, InFlight
<1>4. RefundedInFull
  BY DEF RefundedInFull, Terminal
<1>5. FeeWithinHalfNgwee
  BY DEF FeeWithinHalfNgwee
<1> QED
  BY <1>1, <1>2, <1>3, <1>4, <1>5

(* No sequence of EscrowService calls creates or loses money.               *)
THEOREM MoneyIsConserved == Spec => []MoneyConserved
<1> QED
  BY BooksKept, BooksImply, PTL

(* The balance column and the double entries agree after every transaction. *)
THEOREM LedgerAgrees == Spec => []LedgerMatchesAccount
<1> QED
  BY BooksKept, BooksImply, PTL

(* release_funds never disburses without a hold row to put the payout on.   *)
THEOREM PayoutRecorded == Spec => []PayoutOnRecord
<1> QED
  BY BooksKept, BooksImply, PTL

(* An order on its way is covered by its full price.                        *)
THEOREM FullyCovered == Spec => []FullCoverInFlight
<1> QED
  BY BooksKept, BooksImply, PTL

(* REFUNDED means that the buyer has all the money back.                    *)
THEOREM RefundsAreFull == Spec => []RefundedInFull
<1> QED
  BY BooksKept, BooksImply, PTL

(* Rounding favours nobody by more than half an ngwee, at any fee rate.     *)
THEOREM FeeIsFair == Spec => []FeeWithinHalfNgwee
<1> QED
  BY BooksKept, BooksImply, PTL

(* The nightly reconciliation reports every open account that holds money   *)
(* and no other, whatever the service has done: it tells nothing of errors. *)
THEOREM ReportsHeldMoney == Spec => []ReportListsHeldMoney
<1>1. IInv => ReportListsHeldMoney
  <2> SUFFICES ASSUME IInv PROVE ReportListsHeldMoney
    OBVIOUS
  <2>1. \A a \in Accounts : ExpectedBalance(a) = 0
    BY DEF IInv, TypeOK, LedgerSums, Books, ExpectedBalance, DebitSum
  <2>2. \A a \in Accounts : account[a].balance \in Nat
    BY DEF IInv, TypeOK, Account
  <2> QED
    BY <2>1, <2>2 DEF ReportListsHeldMoney, Discrepancies
<1> QED
  BY <1>1, BooksKept, PTL

(* The rows of a RELEASED or REFUNDED account never change again.           *)
THEOREM SettlementFinal == Spec => SettlementIsFinal
<1>1. ASSUME TypeOK, [Next]_vars, NEW a \in Accounts,
             account[a].state \in Terminal
      PROVE  /\ account'[a] = account[a]
             /\ ledger'[a] = ledger[a]
             /\ hold'[a] = hold[a]
  <2>1. CASE UNCHANGED vars
    BY <2>1 DEF vars
  <2>2. CASE Next
    <3> PICK b \in Accounts :
          /\ OnlyTouches(b)
          /\ \/ CreateAccount(b)
             \/ \E amount \in Amounts : HoldFunds(b, amount)
             \/ Move(b)
             \/ \E flags \in BOOLEAN, score \in MlScores \cup {NoScore} :
                  ReleaseFunds(b, flags, score)
             \/ UNCHANGED <<account, ledger, hold>>
             \/ Refund(b)
             \/ \E amount \in Amounts : PartialRefund(b, amount)
      BY <1>1, <2>2, OneAccountAtATime
    <3>1. CASE b # a
      BY <1>1, <3>1 DEF OnlyTouches
    <3>2. CASE b = a
      <4>1. \A t : ~CanMove(a, t)
        BY <1>1, Sources DEF CanMove
      <4>2. account[a].state # Absent
        BY <1>1 DEF Terminal, Absent
      <4>3. account[a].state \notin PartialRefundSources
        BY <1>1 DEF Terminal, PartialRefundSources
      <4> QED
        BY <3>2, <4>1, <4>2, <4>3
        DEF CreateAccount, HoldFunds, Move, MarkInTransit, MarkDelivered,
            RaiseDispute, Freeze, SetState, ReleaseFunds, MayRelease, Refund,
            PartialRefund
    <3> QED
      BY <3>1, <3>2
  <2> QED
    BY <1>1, <2>1, <2>2
<1>2. TypeOK /\ [Next]_vars =>
        [\A a \in Accounts : account[a].state \in Terminal =>
           /\ account'[a] = account[a]
           /\ ledger'[a] = ledger[a]
           /\ hold'[a] = hold[a]]_vars
  BY <1>1
<1> QED
  BY <1>2, TypeCorrect, PTL DEF Spec, SettlementIsFinal

-----------------------------------------------------------------------------
(* EscrowService implements FundsCustody.                                   *)

LEMMA CustodyInit == Init => Custody!Init
BY DEF Init, Custody!Init, PhaseOf, Terminal, Absent

(* What FundsCustody sees of the accounts a step does not touch ...         *)
LEMMA CustodyOfOthers ==
  ASSUME NEW a \in Accounts, OnlyTouches(a), NEW b \in Accounts \ {a}
  PROVE  /\ PhaseOf(b)' = PhaseOf(b)
         /\ account'[b].balance = account[b].balance
         /\ ledger'[b].refunded = ledger[b].refunded
         /\ hold'[b].net = hold[b].net
         /\ hold'[b].fee = hold[b].fee
BY DEF OnlyTouches, PhaseOf

(* ... and a step that FundsCustody does not see.                           *)
LEMMA CustodyStutter ==
  ASSUME NEW a \in Accounts, OnlyTouches(a),
         PhaseOf(a)' = PhaseOf(a),
         account'[a].balance = account[a].balance,
         ledger'[a].refunded = ledger[a].refunded,
         hold'[a].net = hold[a].net, hold'[a].fee = hold[a].fee
  PROVE  UNCHANGED Custody!vars
<1>1. \A b \in Accounts : PhaseOf(b)' = PhaseOf(b)
  BY CustodyOfOthers
<1>2. \A b \in Accounts : account'[b].balance = account[b].balance
  BY CustodyOfOthers
<1>3. \A b \in Accounts : ledger'[b].refunded = ledger[b].refunded
  BY CustodyOfOthers
<1>4. \A b \in Accounts : hold'[b].net = hold[b].net
  BY CustodyOfOthers
<1>5. \A b \in Accounts : hold'[b].fee = hold[b].fee
  BY CustodyOfOthers
<1> QED
  BY <1>1, <1>2, <1>3, <1>4, <1>5 DEF Custody!vars

LEMMA CustodyDeposit ==
  ASSUME TypeOK, NEW a \in Accounts, NEW amount \in Amounts, Books(a),
         OnlyTouches(a), HoldFunds(a, amount)
  PROVE  Custody!Next
<1> USE DEF TypeOK, Account, LedgerSums, Hold
<1>1. amount \in Nat \ {0}
  BY AmountsAssumption DEF HoldFunds
<1>2. account[a].state = "PENDING"
  BY Sources DEF HoldFunds, CanMove
<1>3. account[a].balance = 0 /\ ledger[a].received = 0
  BY <1>2 DEF Books, Unpaid
<1>4. PhaseOf(a) = "empty"
  BY <1>2, <1>3 DEF PhaseOf, Terminal
<1>5. /\ account'[a].state = "HELD" /\ account'[a].balance = amount
      /\ ledger'[a].received = amount /\ ledger'[a].refunded = ledger[a].refunded
      /\ hold'[a].net = hold[a].net /\ hold'[a].fee = hold[a].fee
  BY <1>1, <1>3 DEF HoldFunds, Save, PostReceipt, Post
<1>6. PhaseOf(a)' = "funded"
  BY <1>1, <1>5 DEF PhaseOf, Terminal
<1>7. /\ \A b \in Accounts : ledger'[b].refunded = ledger[b].refunded
      /\ \A b \in Accounts : hold'[b].net = hold[b].net
      /\ \A b \in Accounts : hold'[b].fee = hold[b].fee
  BY <1>5, CustodyOfOthers
<1>8. \A b \in Accounts \ {a} : PhaseOf(b)' = PhaseOf(b)
  BY CustodyOfOthers
<1>9. \A b \in Accounts \ {a} : account'[b].balance = account[b].balance
  BY CustodyOfOthers
<1>10. Custody!Deposit(a, amount)
  <2>1. [b \in Accounts |-> PhaseOf(b)]' =
          [[b \in Accounts |-> PhaseOf(b)] EXCEPT ![a] = "funded"]
    BY <1>6, <1>8
  <2>2. [b \in Accounts |-> account[b].balance]' =
          [[b \in Accounts |-> account[b].balance] EXCEPT ![a] = amount]
    BY <1>5, <1>9
  <2>3. UNCHANGED <<[b \in Accounts |-> ledger[b].refunded],
                    [b \in Accounts |-> hold[b].net],
                    [b \in Accounts |-> hold[b].fee]>>
    BY <1>7
  <2> QED
    BY <1>1, <1>4, <2>1, <2>2, <2>3 DEF Custody!Deposit
<1> QED
  BY <1>1, <1>10 DEF Custody!Next

LEMMA CustodyGiveBack ==
  ASSUME TypeOK, NEW a \in Accounts, NEW amount \in Amounts, Books(a),
         OnlyTouches(a), PartialRefund(a, amount)
  PROVE  Custody!Next
<1> USE DEF TypeOK, Account, LedgerSums, Hold
<1>1. amount \in 1..account[a].balance
  BY AmountsAssumption DEF PartialRefund
<1>2. account[a].state \notin Terminal
  BY DEF PartialRefund, PartialRefundSources, Terminal
<1>3. ledger[a].received > 0
  BY <1>1 DEF Books
<1>4. /\ account'[a].state = "PARTIALLY_REFUNDED"
      /\ account'[a].balance = account[a].balance - amount
      /\ ledger'[a].received = ledger[a].received
      /\ ledger'[a].refunded = ledger[a].refunded + amount
      /\ hold' = hold
  BY <1>1 DEF PartialRefund, Save, PostRefund, Post
<1>5. PhaseOf(a) = "funded" /\ PhaseOf(a)' = "funded"
  BY <1>2, <1>3, <1>4 DEF PhaseOf, Terminal
<1>6. \A b \in Accounts : PhaseOf(b)' = PhaseOf(b)
  BY <1>5, CustodyOfOthers
<1>7. \A b \in Accounts \ {a} : account'[b].balance = account[b].balance
  BY CustodyOfOthers
<1>8. \A b \in Accounts \ {a} : ledger'[b].refunded = ledger[b].refunded
  BY CustodyOfOthers
<1>9. Custody!GiveBack(a, amount)
  <2>1. [b \in Accounts |-> account[b].balance]' =
          [[b \in Accounts |-> account[b].balance] EXCEPT ![a] = @ - amount]
    BY <1>4, <1>7
  <2>2. [b \in Accounts |-> ledger[b].refunded]' =
          [[b \in Accounts |-> ledger[b].refunded] EXCEPT ![a] = @ + amount]
    BY <1>4, <1>8
  <2>3. UNCHANGED <<[b \in Accounts |-> PhaseOf(b)],
                    [b \in Accounts |-> hold[b].net],
                    [b \in Accounts |-> hold[b].fee]>>
    BY <1>4, <1>6
  <2> QED
    BY <1>1, <1>5, <2>1, <2>2, <2>3 DEF Custody!GiveBack
<1> QED
  BY <1>1, <1>9 DEF Custody!Next

LEMMA CustodyBuyer ==
  ASSUME TypeOK, NEW a \in Accounts, Books(a), OnlyTouches(a), Refund(a)
  PROVE  Custody!Next
<1> USE DEF TypeOK, Account, LedgerSums, Hold
<1>1. account[a].state \notin Terminal
  BY Sources DEF Refund, CanMove
<1>2. /\ account'[a].state = "REFUNDED" /\ account'[a].balance = 0
      /\ hold' = hold
  BY DEF Refund, Save
<1>3. ledger'[a].refunded = ledger[a].refunded + account[a].balance
  <2>1. CASE account[a].balance > 0
    BY <2>1 DEF Refund, PostRefund, Post
  <2>2. CASE ~(account[a].balance > 0)
    BY <2>2 DEF Refund
  <2> QED
    BY <2>1, <2>2
<1>4. PhaseOf(a) # "settled" /\ PhaseOf(a)' = "settled"
  BY <1>1, <1>2 DEF PhaseOf, Terminal
<1>5. \A b \in Accounts \ {a} : PhaseOf(b)' = PhaseOf(b)
  BY CustodyOfOthers
<1>6. \A b \in Accounts \ {a} : account'[b].balance = account[b].balance
  BY CustodyOfOthers
<1>7. \A b \in Accounts \ {a} : ledger'[b].refunded = ledger[b].refunded
  BY CustodyOfOthers
<1>8. Custody!SettleWithBuyer(a)
  <2>1. [b \in Accounts |-> PhaseOf(b)]' =
          [[b \in Accounts |-> PhaseOf(b)] EXCEPT ![a] = "settled"]
    BY <1>4, <1>5
  <2>2. [b \in Accounts |-> account[b].balance]' =
          [[b \in Accounts |-> account[b].balance] EXCEPT ![a] = 0]
    BY <1>2, <1>6
  <2>3. [b \in Accounts |-> ledger[b].refunded]' =
          [[b \in Accounts |-> ledger[b].refunded] EXCEPT
             ![a] = @ + [b \in Accounts |-> account[b].balance][a]]
    BY <1>3, <1>7
  <2>4. UNCHANGED <<[b \in Accounts |-> hold[b].net],
                    [b \in Accounts |-> hold[b].fee]>>
    BY <1>2
  <2> QED
    BY <1>4, <2>1, <2>2, <2>3, <2>4 DEF Custody!SettleWithBuyer
<1> QED
  BY <1>8 DEF Custody!Next

LEMMA CustodyVendor ==
  ASSUME TypeOK, NEW a \in Accounts, Books(a), OnlyTouches(a),
         NEW flags \in BOOLEAN, NEW score, ReleaseFunds(a, flags, score)
  PROVE  Custody!Next
<1> DEFINE gross == account[a].balance
<1> PICK fee : fee = FeeOf(gross)
  OBVIOUS
<1> USE DEF TypeOK, Account, LedgerSums, Hold
<1>1. gross \in Nat /\ gross > 0 /\ fee \in 0..gross
  BY FeeBounds DEF ReleaseFunds, MayRelease
<1>2. account[a].state \notin Terminal
  BY Sources DEF ReleaseFunds, MayRelease, CanMove
<1>3. ledger[a].received > 0 /\ hold[a].exists
  BY <1>1 DEF Books
<1>4. account'[a].state = "RELEASED" /\ account'[a].balance = 0
  BY DEF ReleaseFunds, Save
<1>5. ledger'[a].refunded = ledger[a].refunded
  BY DEF ReleaseFunds, Post
<1>6. hold'[a].fee = fee /\ hold'[a].net = gross - fee
  BY <1>3 DEF ReleaseFunds
<1>7. PhaseOf(a) = "funded" /\ PhaseOf(a)' = "settled"
  BY <1>2, <1>3, <1>4 DEF PhaseOf, Terminal
<1>8. \A b \in Accounts : ledger'[b].refunded = ledger[b].refunded
  BY <1>5, CustodyOfOthers
<1>9. \A b \in Accounts \ {a} : PhaseOf(b)' = PhaseOf(b)
  BY CustodyOfOthers
<1>10. \A b \in Accounts \ {a} : account'[b].balance = account[b].balance
  BY CustodyOfOthers
<1>11. \A b \in Accounts \ {a} : /\ hold'[b].net = hold[b].net
                                 /\ hold'[b].fee = hold[b].fee
  BY CustodyOfOthers
<1>12. Custody!SettleWithVendor(a, fee)
  <2>1. [b \in Accounts |-> PhaseOf(b)]' =
          [[b \in Accounts |-> PhaseOf(b)] EXCEPT ![a] = "settled"]
    BY <1>7, <1>9
  <2>2. [b \in Accounts |-> account[b].balance]' =
          [[b \in Accounts |-> account[b].balance] EXCEPT ![a] = 0]
    BY <1>4, <1>10
  <2>3. [b \in Accounts |-> hold[b].net]' =
          [[b \in Accounts |-> hold[b].net] EXCEPT
             ![a] = [b \in Accounts |-> account[b].balance][a] - fee]
    BY <1>6, <1>11
  <2>4. [b \in Accounts |-> hold[b].fee]' =
          [[b \in Accounts |-> hold[b].fee] EXCEPT ![a] = fee]
    BY <1>6, <1>11
  <2>5. UNCHANGED [b \in Accounts |-> ledger[b].refunded]
    BY <1>8
  <2> QED
    BY <1>1, <1>7, <2>1, <2>2, <2>3, <2>4, <2>5 DEF Custody!SettleWithVendor
<1> QED
  BY <1>1, <1>12 DEF Custody!Next

(* Operations that move no money are invisible: they neither close an       *)
(* account nor open one.                                                    *)
LEMMA CustodyMove ==
  ASSUME TypeOK, NEW a \in Accounts, OnlyTouches(a), Move(a)
  PROVE  UNCHANGED Custody!vars
<1> USE DEF TypeOK, Account
<1>1. ASSUME NEW target \in EscrowState \ Terminal, SetState(a, target)
      PROVE  UNCHANGED Custody!vars
  <2>1. account[a].state \notin Terminal
    BY <1>1, Sources DEF SetState, CanMove
  <2>2. /\ account'[a].state \notin Terminal
        /\ account'[a].balance = account[a].balance
        /\ ledger' = ledger /\ hold' = hold
    BY <1>1 DEF SetState, Save
  <2>3. PhaseOf(a)' = PhaseOf(a)
    BY <2>1, <2>2 DEF PhaseOf
  <2> QED
    BY <2>2, <2>3, CustodyStutter
<1>2. {"IN_TRANSIT", "DELIVERED", "DISPUTED", "FROZEN"}
        \subseteq EscrowState \ Terminal
  BY DEF EscrowState, Terminal
<1> QED
  BY <1>1, <1>2 DEF Move, MarkInTransit, MarkDelivered, RaiseDispute, Freeze

LEMMA CustodyStep == IInv /\ [Next]_vars => [Custody!Next]_(Custody!vars)
<1> SUFFICES ASSUME IInv, [Next]_vars
             PROVE  Custody!Next \/ UNCHANGED Custody!vars
  OBVIOUS
<1>1. TypeOK
  BY DEF IInv
<1>2. CASE UNCHANGED vars
  BY <1>2 DEF vars, Custody!vars, PhaseOf
<1>3. CASE Next
  <2> PICK a \in Accounts :
        /\ OnlyTouches(a)
        /\ \/ CreateAccount(a)
           \/ \E amount \in Amounts : HoldFunds(a, amount)
           \/ Move(a)
           \/ \E flags \in BOOLEAN, score \in MlScores \cup {NoScore} :
                ReleaseFunds(a, flags, score)
           \/ UNCHANGED <<account, ledger, hold>>
           \/ Refund(a)
           \/ \E amount \in Amounts : PartialRefund(a, amount)
    BY <1>1, <1>3, OneAccountAtATime
  <2>0. Books(a)
    BY DEF IInv
  <2>1. CASE CreateAccount(a)
    <3>1. account[a].state = Absent /\ ledger[a].received = 0
      BY <2>0, <2>1 DEF CreateAccount, Books, Unpaid
    <3>2. account[a].balance = 0
      BY <1>1, <2>0, <3>1 DEF Books, TypeOK, Account, LedgerSums
    <3>3. /\ account'[a].state = "PENDING" /\ account'[a].balance = 0
          /\ ledger' = ledger /\ hold' = hold
      BY <1>1, <2>1 DEF CreateAccount, TypeOK
    <3>4. PhaseOf(a)' = PhaseOf(a)
      BY <3>1, <3>3 DEF PhaseOf, Terminal, Absent
    <3> QED
      BY <3>2, <3>3, <3>4, CustodyStutter
  <2>2. ASSUME NEW amount \in Amounts, HoldFunds(a, amount)
        PROVE  Custody!Next
    BY <1>1, <2>0, <2>2, CustodyDeposit
  <2>3. ASSUME Move(a)
        PROVE  UNCHANGED Custody!vars
    BY <1>1, <2>3, CustodyMove
  <2>4. ASSUME NEW flags \in BOOLEAN, NEW score, ReleaseFunds(a, flags, score)
        PROVE  Custody!Next
    BY <1>1, <2>0, <2>4, CustodyVendor
  <2>5. ASSUME UNCHANGED <<account, ledger, hold>>
        PROVE  UNCHANGED Custody!vars
    BY <2>5 DEF Custody!vars, PhaseOf
  <2>6. ASSUME Refund(a)
        PROVE  Custody!Next
    BY <1>1, <2>0, <2>6, CustodyBuyer
  <2>7. ASSUME NEW amount \in Amounts, PartialRefund(a, amount)
        PROVE  Custody!Next
    BY <1>1, <2>0, <2>7, CustodyGiveBack
  <2> QED
    BY <2>1, <2>2, <2>3, <2>4, <2>5, <2>6, <2>7
<1> QED
  BY <1>2, <1>3

(* Seen through its rows, EscrowService takes money in once per account and *)
(* pays it out to the buyer, the vendor and the platform as FundsCustody    *)
(* promises: every step is one of that specification's or a stutter.        *)
THEOREM EscrowKeepsCustody == Spec => CustodySpec
<1> QED
  BY CustodyInit, CustodyStep, BooksKept, PTL DEF Spec, CustodySpec, Custody!Spec
=============================================================================
