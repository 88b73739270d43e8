-------------------------- MODULE MarketplaceProofs -------------------------
(***************************************************************************)
(* Proofs about Marketplace, for any orders, dispute rows and concurrent    *)
(* requests, any amounts and any fee rate.                                  *)
(*                                                                          *)
(* A request writes an order's or a dispute's status over whatever it has   *)
(* become, so nothing can be said of the statuses alone.  What holds is     *)
(* read off the escrow account, which is decided on under its lock: money   *)
(* received stays received, a released account stays released, and an       *)
(* account that has left DELIVERED for a dispute never comes back.  So what *)
(* a request saw is still true when it commits, however late.               *)
(***************************************************************************)
EXTENDS Marketplace, TLAPS

(* The theorems about the escrow service, for the accounts of the orders.   *)
EP == INSTANCE EscrowProofs WITH Accounts <- Orders

PaidStatus ==
  {"PAYMENT_RECEIVED", "PROCESSING", "SHIPPED", "DELIVERED", "COMPLETED",
   "DISPUTED", "REFUNDED"}

(* The states of an account that has been contested.                        *)
Contested ==
  {"DISPUTED", "PARTIALLY_REFUNDED", "FROZEN", "RELEASED", "REFUNDED"}

(* Some row says that the order has been paid.                              *)
TakenAsPaid(o) ==
  \/ order[o] \in PaidStatus
  \/ o \in shipped
  \/ \E row \in DisputeRows : orderDispute[o][row] # "none"
  \/ dispute[o] # "NONE"

Sound(o) ==
  /\ ledger[o].received \in {0, Total}
  /\ TakenAsPaid(o) => ledger[o].received = Total
  /\ order[o] = "COMPLETED" => ledger[o].released + ledger[o].refunded > 0
  /\ order[o] = "REFUNDED" => ledger[o].refunded = Total
  /\ dispute[o] # "NONE" => account[o].state \in Contested
  /\ dispute[o] \in {"RESOLVED_VENDOR", "WITHDRAWN"} =>
       account[o].state = "RELEASED"
  /\ dispute[o] = "RESOLVED_BUYER" => ledger[o].refunded > 0
  /\ account[o].state \in {"ABSENT", "PENDING", "HELD"} => o \notin shipped
  /\ account[o].state \in {"IN_TRANSIT", "DELIVERED"} => o \in shipped

(* What the checks of a request's operation have seen, and will still be so *)
(* when it commits.                                                         *)
NeedPayment ==
  {"acknowledge", "ship", "confirm_delivery", "complete", "dispute_order",
   "refund_buyer", "release_seller", "partial_refund"}

NeedDispute == {"withdraw", "assign", "resolve_buyer", "resolve_vendor"}

Carries(p) ==
  /\ request[p].order \in Orders /\ request[p].actor \in Actors
  /\ request[p].amount \in Amounts \cup {0}
  /\ request[p].op \in NeedPayment =>
       ledger[request[p].order].received = Total
  /\ request[p].op \in NeedDispute => dispute[request[p].order] # "NONE"

RowsTyped ==
  /\ order \in [Orders -> OrderStatus \cup {"NONE"}]
  /\ shipped \subseteq Orders
  /\ orderDispute \in [Orders -> [DisputeRows -> {"none", "open", "resolved"}]]
  /\ dispute \in [Orders -> DisputeStatus \cup {"NONE"}]
  /\ request = [p \in Requests |-> request[p]]

(* The inductive invariant.                                                 *)
IInv ==
  /\ EP!IInv
  /\ RowsTyped
  /\ \A o \in Orders : Sound(o)
  /\ \A p \in Requests : request[p] # NoRequest => Carries(p)

-----------------------------------------------------------------------------
(* The escrow service, seen from its callers.                               *)

ServiceCall(o) ==
  \/ E!CreateAccount(o)
  \/ E!HoldFunds(o, Total)
  \/ E!MarkInTransit(o)
  \/ E!MarkDelivered(o)
  \/ E!RaiseDispute(o)
  \/ E!Freeze(o)
  \/ ReleaseFunds(o)
  \/ E!Refund(o)
  \/ \E amount \in Amounts : E!PartialRefund(o, amount)

(* The marketplace reaches the accounts through EscrowService only.         *)
LEMMA CallIsStep ==
  ASSUME NEW o \in Orders, ServiceCall(o)
  PROVE  EP!Next
<1> USE DEF E!CanMove, EP!CanMove, E!Validate, EP!Validate, E!Transitions,
            EP!Transitions, E!EscrowState, EP!EscrowState, E!Quiet, EP!Quiet,
            E!Save, EP!Save, E!Post, EP!Post
<1>1. E!CreateAccount(o) => EP!CreateAccount(o)
  BY DEF E!CreateAccount, EP!CreateAccount, E!Absent, EP!Absent
<1>2. E!HoldFunds(o, Total) => EP!HoldFunds(o, Total)
  BY DEF E!HoldFunds, EP!HoldFunds, E!PostReceipt, EP!PostReceipt
<1>3. \A s : E!SetState(o, s) => EP!SetState(o, s)
  BY DEF E!SetState, EP!SetState
<1>4. ReleaseFunds(o) => EP!ReleaseFunds(o, FALSE, NoScore)
  BY DEF ReleaseFunds, E!ReleaseFunds, EP!ReleaseFunds, E!MayRelease,
         EP!MayRelease, E!EvaluateFraudGate, EP!EvaluateFraudGate, E!FeeOf,
         EP!FeeOf, E!FraudFreezeThreshold, EP!FraudFreezeThreshold
<1>5. E!Refund(o) => EP!Refund(o)
  BY DEF E!Refund, EP!Refund, E!PostRefund, EP!PostRefund
<1>6. \A amount : E!PartialRefund(o, amount) => EP!PartialRefund(o, amount)
  BY DEF E!PartialRefund, EP!PartialRefund, E!PartialRefundSources,
         EP!PartialRefundSources, E!PostRefund, EP!PostRefund
<1>7. EP!Move(o) \/ ~(\E s \in {"IN_TRANSIT", "DELIVERED", "DISPUTED", "FROZEN"} :
                        EP!SetState(o, s))
  BY DEF EP!Move, EP!MarkInTransit, EP!MarkDelivered, EP!RaiseDispute, EP!Freeze
<1> HIDE DEF E!CanMove, EP!CanMove, E!Save, EP!Save, E!Post, EP!Post
<1>8. \/ EP!CreateAccount(o) \/ EP!HoldFunds(o, Total) \/ EP!Move(o)
      \/ EP!ReleaseFunds(o, FALSE, NoScore) \/ EP!Refund(o)
      \/ \E amount \in Amounts : EP!PartialRefund(o, amount)
  BY <1>1, <1>2, <1>3, <1>4, <1>5, <1>6, <1>7
     DEF ServiceCall, E!MarkInTransit, E!MarkDelivered, E!RaiseDispute, E!Freeze
<1> QED
  BY <1>8, TotalAssumption DEF EP!Next, EP!Release

(* What a call about o's account leaves as it was, whatever the call.       *)
Kept(o) ==
  /\ \A b \in Orders \ {o} : account'[b] = account[b] /\ ledger'[b] = ledger[b]
  /\ ledger'[o].received \in {0, Total}
  /\ ledger[o].received = Total => ledger'[o].received = Total
  /\ ledger'[o].refunded <= ledger'[o].received
  /\ ledger'[o].refunded \in Nat /\ ledger'[o].refunded >= ledger[o].refunded
  /\ ledger'[o].released \in Nat /\ ledger'[o].released >= ledger[o].released
  /\ account[o].state = "RELEASED" => account'[o].state = "RELEASED"
  /\ account[o].state \in Contested => account'[o].state \in Contested

(* The part of the account's books that is needed here.                     *)
LEMMA BooksOf ==
  ASSUME EP!IInv, NEW o \in Orders
  PROVE  /\ account \in [Orders -> [state : E!EscrowState \cup {"ABSENT"},
                                    balance : Nat, version : Nat]]
         /\ ledger \in [Orders -> [received : Nat, refunded : Nat,
                                   released : Nat, credits : Nat,
                                   balanceAfter : Nat]]
         /\ ledger[o].received =
              account[o].balance + ledger[o].refunded + ledger[o].released
         /\ account[o].state \in {"ABSENT", "PENDING"} => ledger[o].received = 0
         /\ account[o].state \in {"HELD", "IN_TRANSIT", "DELIVERED"} =>
              account[o].balance > 0 /\ account[o].balance = ledger[o].received
         /\ account[o].state \in {"RELEASED", "REFUNDED"} =>
              account[o].balance = 0
         /\ account[o].state = "RELEASED" <=> ledger[o].released > 0
BY DEF EP!IInv, EP!TypeOK, EP!Account, EP!LedgerSums, EP!Books, EP!EscrowState,
       E!EscrowState, EP!Absent, EP!Unpaid, EP!InFlight, EP!Terminal

LEMMA MoveKeeps ==
  ASSUME EP!IInv, NEW o \in Orders, ledger[o].received \in {0, Total},
         NEW s \in E!EscrowState \ {"PENDING", "HELD"}, E!SetState(o, s)
  PROVE  Kept(o) /\ account'[o].state = s /\ ledger' = ledger
<1>1. account'[o].state = s /\ ledger' = ledger
  BY BooksOf DEF E!SetState, E!Save
<1>2. \A b \in Orders \ {o} : account'[b] = account[b]
  BY BooksOf DEF E!SetState, E!Save
<1>3. /\ account[o].state # "RELEASED"
      /\ account[o].state \in Contested => s \in Contested
  BY DEF E!SetState, E!CanMove, E!Validate, E!Transitions, E!EscrowState, Contested
<1> QED
  BY <1>1, <1>2, <1>3, BooksOf DEF Kept

LEMMA HoldKeeps ==
  ASSUME EP!IInv, NEW o \in Orders, E!HoldFunds(o, Total)
  PROVE  /\ Kept(o)
         /\ account[o].state = "PENDING" /\ account'[o].state = "HELD"
         /\ ledger[o].received = 0 /\ ledger'[o].received = Total
<1>1. account[o].state = "PENDING"
  BY DEF E!HoldFunds, E!CanMove, E!Validate, E!Transitions, E!EscrowState
<1>2. ledger[o].received = 0
  BY <1>1, BooksOf
<1>3. Total \in Nat \ {0}
  BY TotalAssumption, ServiceAssumption
<1>4. /\ account'[o].state = "HELD"
      /\ ledger'[o].received = Total
      /\ ledger'[o].refunded = ledger[o].refunded
      /\ ledger'[o].released = ledger[o].released
      /\ \A b \in Orders \ {o} : account'[b] = account[b] /\ ledger'[b] = ledger[b]
  BY <1>2, <1>3, BooksOf DEF E!HoldFunds, E!Save, E!PostReceipt, E!Post
<1> QED
  BY <1>1, <1>2, <1>3, <1>4, BooksOf DEF Kept, Contested

LEMMA ReleaseKeeps ==
  ASSUME EP!IInv, NEW o \in Orders, ledger[o].received \in {0, Total},
         ReleaseFunds(o)
  PROVE  /\ Kept(o)
         /\ account'[o].state = "RELEASED"
         /\ account[o].state \in Contested \cup {"DELIVERED"}
         /\ account[o].state \notin {"RELEASED", "REFUNDED"}
         /\ ledger'[o].released > 0
         /\ ledger'[o].received = ledger[o].received
<1>1. account[o].balance > 0
  BY DEF ReleaseFunds, E!ReleaseFunds, E!MayRelease
<1>2. /\ account[o].state \in Contested \cup {"DELIVERED"}
      /\ account[o].state \notin {"RELEASED", "REFUNDED"}
  BY DEF ReleaseFunds, E!ReleaseFunds, E!MayRelease, E!CanMove, E!Validate,
         E!Transitions, E!EscrowState, Contested
<1>3. /\ account'[o].state = "RELEASED"
      /\ ledger'[o].received = ledger[o].received
      /\ ledger'[o].refunded = ledger[o].refunded
      /\ ledger'[o].released = ledger[o].released + account[o].balance
      /\ \A b \in Orders \ {o} : account'[b] = account[b] /\ ledger'[b] = ledger[b]
  BY BooksOf DEF ReleaseFunds, E!ReleaseFunds, E!Save, E!Post
<1> QED
  BY <1>1, <1>2, <1>3, BooksOf DEF Kept, Contested

LEMMA RefundKeeps ==
  ASSUME EP!IInv, NEW o \in Orders, ledger[o].received \in {0, Total}, E!Refund(o)
  PROVE  /\ Kept(o)
         /\ account'[o].state = "REFUNDED"
         /\ account[o].state \in Contested \cup {"HELD"}
         /\ account[o].state \notin {"RELEASED", "REFUNDED"}
         /\ ledger'[o].received = ledger[o].received
         /\ ledger'[o].refunded = ledger[o].received
<1>1. /\ account[o].state \in Contested \cup {"HELD"}
      /\ account[o].state \notin {"RELEASED", "REFUNDED"}
  BY DEF E!Refund, E!CanMove, E!Validate, E!Transitions, E!EscrowState, Contested
<1>2. ledger[o].refunded + account[o].balance = ledger[o].received
  BY <1>1, BooksOf
<1>3. account'[o].state = "REFUNDED"
  BY BooksOf DEF E!Refund, E!Save
<1>4. /\ ledger'[o].received = ledger[o].received
      /\ ledger'[o].refunded = ledger[o].refunded + account[o].balance
      /\ ledger'[o].released = ledger[o].released
  <2>1. CASE account[o].balance > 0
    BY <2>1, BooksOf DEF E!Refund, E!PostRefund, E!Post
  <2>2. CASE ~(account[o].balance > 0)
    <3>1. account[o].balance = 0
      BY <2>2, BooksOf
    <3>2. ledger' = ledger
      BY <2>2 DEF E!Refund
    <3> QED
      BY <3>1, <3>2, BooksOf
  <2> QED
    BY <2>1, <2>2
<1>5. \A b \in Orders \ {o} : account'[b] = account[b] /\ ledger'[b] = ledger[b]
  BY BooksOf DEF E!Refund, E!Save, E!PostRefund, E!Post
<1> QED
  BY <1>1, <1>2, <1>3, <1>4, <1>5, BooksOf DEF Kept, Contested

LEMMA PartialRefundKeeps ==
  ASSUME EP!IInv, NEW o \in Orders, ledger[o].received \in {0, Total},
         NEW amount \in Amounts, E!PartialRefund(o, amount)
  PROVE  /\ Kept(o)
         /\ account'[o].state = "PARTIALLY_REFUNDED"
         /\ account[o].state \in {"HELD", "DISPUTED", "PARTIALLY_REFUNDED"}
         /\ ledger'[o].received = ledger[o].received
         /\ ledger'[o].refunded > 0
<1>1. amount \in Nat \ {0}
  BY ServiceAssumption DEF E!PartialRefund
<1>2. /\ account[o].state \in {"HELD", "DISPUTED", "PARTIALLY_REFUNDED"}
      /\ amount <= account[o].balance
  BY DEF E!PartialRefund, E!PartialRefundSources
<1>3. /\ account'[o].state = "PARTIALLY_REFUNDED"
      /\ ledger'[o].received = ledger[o].received
      /\ ledger'[o].refunded = ledger[o].refunded + amount
      /\ ledger'[o].released = ledger[o].released
      /\ \A b \in Orders \ {o} : account'[b] = account[b] /\ ledger'[b] = ledger[b]
  BY <1>1, BooksOf DEF E!PartialRefund, E!Save, E!PostRefund, E!Post
<1> QED
  BY <1>1, <1>2, <1>3, BooksOf DEF Kept, Contested

LEMMA CreateKeeps ==
  ASSUME EP!IInv, NEW o \in Orders, E!CreateAccount(o)
  PROVE  /\ Kept(o)
         /\ account[o].state = "ABSENT" /\ account'[o].state = "PENDING"
         /\ ledger' = ledger
<1>1. /\ account[o].state = "ABSENT" /\ account'[o].state = "PENDING"
      /\ ledger' = ledger
      /\ \A b \in Orders \ {o} : account'[b] = account[b]
  BY BooksOf DEF E!CreateAccount, E!Absent
<1>2. ledger[o].received = 0
  BY <1>1, BooksOf
<1> QED
  BY <1>1, <1>2, BooksOf DEF Kept, Contested

(* Each call keeps the books, and each keeps what callers rely on.          *)
LEMMA CallKeeps ==
  ASSUME EP!IInv, NEW o \in Orders, ledger[o].received \in {0, Total},
         ServiceCall(o) \/ UNCHANGED escrowVars
  PROVE  Kept(o) /\ EP!IInv'
<1>1. CASE UNCHANGED escrowVars
  <2>1. Kept(o)
    BY <1>1, BooksOf DEF Kept, escrowVars
  <2>2. UNCHANGED EP!vars
    BY <1>1 DEF escrowVars, EP!vars
  <2> QED
    BY <2>1, <2>2, EP!BooksStep, ServiceAssumption
<1>2. CASE ServiceCall(o)
  <2>1. EP!IInv'
    BY <1>2, CallIsStep, EP!BooksStep, ServiceAssumption
  <2>2. \A s \in {"IN_TRANSIT", "DELIVERED", "DISPUTED", "FROZEN"} :
          s \in E!EscrowState \ {"PENDING", "HELD"}
    BY DEF E!EscrowState
  <2>3. Kept(o)
    BY <1>2, <2>2, MoveKeeps, HoldKeeps, ReleaseKeeps, RefundKeeps,
       PartialRefundKeeps, CreateKeeps
       DEF ServiceCall, E!MarkInTransit, E!MarkDelivered, E!RaiseDispute, E!Freeze
  <2> QED
    BY <2>1, <2>3
<1> QED
  BY <1>1, <1>2

-----------------------------------------------------------------------------
(* A transaction about o.                                                   *)

RowsOfOthers(o) ==
  \A b \in Orders \ {o} :
    /\ order'[b] = order[b] /\ (b \in shipped') = (b \in shipped)
    /\ orderDispute'[b] = orderDispute[b] /\ dispute'[b] = dispute[b]

Writes(o) ==
  /\ ServiceCall(o) \/ UNCHANGED escrowVars
  /\ RowsOfOthers(o)
  /\ RowsTyped'
  /\ dispute[o] # "NONE" => dispute'[o] # "NONE"

LEMMA OthersStaySound ==
  ASSUME IInv, NEW o \in Orders, Kept(o), RowsOfOthers(o)
  PROVE  \A b \in Orders \ {o} : Sound(b)'
BY DEF IInv, Kept, RowsOfOthers, Sound, TakenAsPaid

LEMMA StillCarried ==
  ASSUME IInv, NEW o \in Orders, Kept(o), RowsOfOthers(o),
         dispute[o] # "NONE" => dispute'[o] # "NONE",
         NEW p \in Requests, request[p] # NoRequest,
         UNCHANGED request[p]
  PROVE  Carries(p)'
<1> DEFINE b == request[p].order
<1>1. Carries(p) /\ b \in Orders
  BY DEF IInv, Carries
<1>2. /\ ledger[b].received = Total => ledger'[b].received = Total
      /\ dispute[b] # "NONE" => dispute'[b] # "NONE"
  BY <1>1 DEF Kept, RowsOfOthers
<1> QED
  BY <1>1, <1>2 DEF Carries

(* A closed order stays justified by money that only grows.                 *)
LEMMA ClosedStays ==
  ASSUME IInv, NEW o \in Orders, Kept(o)
  PROVE  /\ order[o] = "COMPLETED" => ledger'[o].released + ledger'[o].refunded > 0
         /\ order[o] = "REFUNDED" => ledger'[o].refunded = Total
<1>1. ledger[o].released \in Nat /\ ledger[o].refunded \in Nat /\ Total \in Nat
  BY BooksOf, TotalAssumption, ServiceAssumption DEF IInv
<1>2. Sound(o)
  BY DEF IInv
<1>3. order[o] = "REFUNDED" => ledger[o].received = Total
  BY <1>2 DEF Sound, TakenAsPaid, PaidStatus
<1> QED
  BY <1>1, <1>2, <1>3 DEF Kept, Sound

(* What remains to be shown of an operation is that o stays sound.          *)
LEMMA CommitKeeps ==
  ASSUME IInv, NEW o \in Orders, Writes(o), Sound(o)',
         \A q \in Requests : request'[q] \in {request[q], NoRequest}
  PROVE  IInv'
<1>1. Kept(o) /\ EP!IInv'
  BY CallKeeps DEF IInv, Sound, Writes
<1>2. \A b \in Orders : Sound(b)'
  BY <1>1, OthersStaySound DEF Writes
<1>3. \A q \in Requests : request'[q] # NoRequest => Carries(q)'
  BY <1>1, StillCarried DEF Writes
<1> QED
  BY <1>1, <1>2, <1>3 DEF IInv, Writes

LEMMA CommitFrees ==
  ASSUME IInv, NEW p \in Requests, NEW o \in Orders, NEW op, Commit(p, op, o)
  PROVE  /\ request[p].op = op /\ request[p].order = o
         /\ Carries(p)
         /\ request' = [q \in Requests |-> request'[q]]
         /\ \A q \in Requests : request'[q] \in {request[q], NoRequest}
BY DEF IInv, RowsTyped, Commit

LEMMA InitIInv == Init => IInv
<1> SUFFICES ASSUME Init PROVE IInv
  OBVIOUS
<1>1. EP!IInv
  <2>1. EP!Init
    BY DEF Init, E!Init, EP!Init, E!Absent, EP!Absent
  <2> QED
    BY <2>1, EP!BooksInit, ServiceAssumption
<1>2. RowsTyped
  BY DEF Init, RowsTyped
<1>3. ASSUME NEW o \in Orders PROVE Sound(o)
  BY DEF Init, E!Init, E!Absent, Sound, TakenAsPaid, PaidStatus
<1> QED
  BY <1>1, <1>2, <1>3 DEF Init, IInv

-----------------------------------------------------------------------------
(* Begin: what the checks see holds of the rows.                            *)

LEMMA OpenKeeps ==
  ASSUME IInv, NEW p \in Requests, NEW op, NEW o \in Orders,
         NEW actor \in Actors, NEW row,
         NEW amount \in Amounts \cup {0}, Open(p, op, o, actor, row, amount),
         op \in NeedPayment => ledger[o].received = Total,
         op \in NeedDispute => dispute[o] # "NONE"
  PROVE  IInv'
<1>1. /\ request'[p] = Request(op, o, actor, row, amount)
      /\ \A q \in Requests \ {p} : request'[q] = request[q]
      /\ request' = [q \in Requests |-> request'[q]]
  BY DEF Open, IInv, RowsTyped
<1>2. UNCHANGED <<escrowVars, order, shipped, orderDispute, dispute>>
  BY DEF Open
<1>3. EP!IInv'
  <2>1. UNCHANGED EP!vars
    BY <1>2 DEF escrowVars, EP!vars
  <2> QED
    BY <2>1, EP!BooksStep, ServiceAssumption DEF IInv
<1>4. \A b \in Orders : Sound(b)'
  BY <1>2 DEF IInv, escrowVars, Sound, TakenAsPaid
<1>5. RowsTyped'
  BY <1>1, <1>2 DEF IInv, RowsTyped
<1>6. Carries(p)'
  BY <1>1, <1>2 DEF Carries, Request, escrowVars
<1>7. \A q \in Requests \ {p} : request'[q] # NoRequest => Carries(q)'
  BY <1>1, <1>2 DEF IInv, Carries, escrowVars
<1> QED
  BY <1>3, <1>4, <1>5, <1>6, <1>7 DEF IInv

LEMMA BeginKeeps ==
  ASSUME IInv, NEW p \in Requests, Begin(p)
  PROVE  IInv'
<1> PICK o \in Orders :
      \/ \E op \in DOMAIN Target, actor \in Actors :
           BeginOrderOperation(p, op, o, actor)
      \/ \E row \in DisputeRows, amount \in Amounts \cup {0} :
         \E op \in {"refund_buyer", "release_seller", "partial_refund"} :
           BeginResolution(p, op, o, row, amount)
      \/ \E op \in {"raise_dispute", "withdraw", "assign", "resolve_buyer",
                    "resolve_vendor"} : BeginDispute(p, op, o)
      \/ \E op \in DOMAIN AdminFilter : BeginAccountOperation(p, op, o)
  BY DEF Begin
<1>0. TakenAsPaid(o) => ledger[o].received = Total
  BY DEF IInv, Sound
<1>1. ASSUME NEW op \in DOMAIN Target, NEW actor \in Actors,
             BeginOrderOperation(p, op, o, actor)
      PROVE  IInv'
  <2>1. op \in NeedPayment => order[o] \in PaidStatus
    BY <1>1 DEF BeginOrderOperation, Target, OrderTransitions, NeedPayment,
                PaidStatus, IInv, RowsTyped, OrderStatus
  <2>2. op \notin NeedDispute
    BY DEF Target, NeedDispute
  <2> QED
    BY <1>0, <1>1, <2>1, <2>2, OpenKeeps DEF BeginOrderOperation, TakenAsPaid
<1>2. ASSUME NEW row \in DisputeRows, NEW amount \in Amounts \cup {0},
             NEW op \in {"refund_buyer", "release_seller", "partial_refund"},
             BeginResolution(p, op, o, row, amount)
      PROVE  IInv'
  <2>1. ledger[o].received = Total
    BY <1>0, <1>2 DEF BeginResolution, TakenAsPaid
  <2> QED
    BY <1>2, <2>1, OpenKeeps DEF BeginResolution, NeedDispute, Actors
<1>3. ASSUME NEW op, BeginDispute(p, op, o) PROVE IInv'
  <2>1. op \notin NeedPayment
    BY <1>3 DEF BeginDispute, NeedPayment
  <2>2. op \in NeedDispute => dispute[o] # "NONE"
    BY <1>3 DEF BeginDispute, NeedDispute, DisputeIsOpen
  <2> QED
    BY <1>3, <2>1, <2>2, OpenKeeps DEF BeginDispute, Actors
<1>4. ASSUME NEW op \in DOMAIN AdminFilter, BeginAccountOperation(p, op, o)
      PROVE  IInv'
  <2>1. op \notin NeedPayment \cup NeedDispute
    BY DEF AdminFilter, NeedPayment, NeedDispute
  <2> QED
    BY <1>4, <2>1, OpenKeeps DEF BeginAccountOperation, Actors
<1> QED
  BY <1>1, <1>2, <1>3, <1>4

-----------------------------------------------------------------------------
(* The transactions, one lemma per kind.                                    *)

(* A status is written and no service is called.                            *)
LEMMA StatusKeeps ==
  ASSUME IInv, NEW p \in Requests, NEW o \in Orders,
         \/ AcknowledgeOrder(p, o) \/ CancelOrder(p, o) \/ DisputeOrder(p, o)
         \/ AssignDispute(p, o)
  PROVE  IInv'
<1>1. Sound(o) /\ RowsTyped
  BY DEF IInv
<1>2. ASSUME AcknowledgeOrder(p, o) PROVE IInv'
  <2>1. ledger[o].received = Total
    BY <1>2, CommitFrees DEF AcknowledgeOrder, Carries, NeedPayment
  <2>2. Writes(o)
    BY <1>1, <1>2, CommitFrees
       DEF AcknowledgeOrder, SetStatus, disputeVars, Writes, RowsOfOthers,
           RowsTyped, OrderStatus
  <2>3. Sound(o)'
    BY <1>1, <1>2, <2>1
       DEF AcknowledgeOrder, SetStatus, disputeVars, escrowVars, RowsTyped, Sound,
           TakenAsPaid
  <2> QED
    BY <1>2, <2>2, <2>3, CommitFrees, CommitKeeps DEF AcknowledgeOrder
<1>3. ASSUME CancelOrder(p, o) PROVE IInv'
  <2>1. Writes(o)
    BY <1>1, <1>3, CommitFrees
       DEF CancelOrder, SetStatus, disputeVars, Writes, RowsOfOthers,
           RowsTyped, OrderStatus
  <2>2. Sound(o)'
    BY <1>1, <1>3
       DEF CancelOrder, SetStatus, disputeVars, escrowVars, RowsTyped, Sound,
           TakenAsPaid, PaidStatus
  <2> QED
    BY <1>3, <2>1, <2>2, CommitFrees, CommitKeeps DEF CancelOrder
<1>4. ASSUME DisputeOrder(p, o) PROVE IInv'
  <2>1. ledger[o].received = Total
    BY <1>4, CommitFrees DEF DisputeOrder, Carries, NeedPayment
  <2>2. Writes(o)
    <3>1. orderDispute' \in
            [Orders -> [DisputeRows -> {"none", "open", "resolved"}]]
      BY <1>1, <1>4 DEF DisputeOrder, RowsTyped
    <3>2. \A b \in Orders \ {o} : orderDispute'[b] = orderDispute[b]
      BY <1>1, <1>4 DEF DisputeOrder, RowsTyped
    <3> QED
      BY <1>1, <1>4, <3>1, <3>2, CommitFrees
         DEF DisputeOrder, SetStatus, Writes, RowsOfOthers, RowsTyped, OrderStatus
  <2>3. Sound(o)'
    BY <1>1, <1>4, <2>1
       DEF DisputeOrder, SetStatus, escrowVars, RowsTyped, Sound
  <2> QED
    BY <1>4, <2>2, <2>3, CommitFrees, CommitKeeps DEF DisputeOrder
<1>5. ASSUME AssignDispute(p, o) PROVE IInv'
  <2>1. dispute[o] # "NONE"
    BY <1>5, CommitFrees DEF AssignDispute, Carries, NeedDispute
  <2>2. Writes(o)
    BY <1>1, <1>5, CommitFrees
       DEF AssignDispute, Writes, RowsOfOthers, RowsTyped, DisputeStatus
  <2>3. Sound(o)'
    BY <1>1, <1>5, <2>1
       DEF AssignDispute, escrowVars, RowsTyped, Sound, TakenAsPaid
  <2> QED
    BY <1>5, <2>2, <2>3, CommitFrees, CommitKeeps DEF AssignDispute
<1> QED
  BY <1>2, <1>3, <1>4, <1>5

(* The order moves on together with its account.                            *)
LEMMA FulfilmentKeeps ==
  ASSUME IInv, NEW p \in Requests, NEW o \in Orders,
         \/ SubmitOrder(p, o) \/ ConfirmPayment(p, o) \/ ShipOrder(p, o)
         \/ ConfirmDelivery(p, o)
  PROVE  IInv'
<1>1. Sound(o) /\ RowsTyped /\ EP!IInv /\ ledger[o].received \in {0, Total}
  BY DEF IInv, Sound
<1>2. ASSUME SubmitOrder(p, o) PROVE IInv'
  <2>1. Writes(o)
    BY <1>1, <1>2, CommitFrees
       DEF SubmitOrder, SetStatus, disputeVars, Writes, ServiceCall,
           RowsOfOthers, RowsTyped, OrderStatus
  <2>2. Sound(o)'
    BY <1>1, <1>2, CreateKeeps
       DEF SubmitOrder, SetStatus, disputeVars, RowsTyped, Sound, TakenAsPaid,
           PaidStatus, Contested
  <2> QED
    BY <1>2, <2>1, <2>2, CommitFrees, CommitKeeps DEF SubmitOrder
<1>3. ASSUME ConfirmPayment(p, o) PROVE IInv'
  <2>1. Writes(o)
    BY <1>1, <1>3, CommitFrees
       DEF ConfirmPayment, SetStatus, disputeVars, Writes, ServiceCall,
           RowsOfOthers, RowsTyped, OrderStatus
  <2>2. Sound(o)'
    BY <1>1, <1>3, HoldKeeps
       DEF ConfirmPayment, SetStatus, disputeVars, RowsTyped, Sound, TakenAsPaid,
           PaidStatus, Contested, Kept
  <2> QED
    BY <1>3, <2>1, <2>2, CommitFrees, CommitKeeps DEF ConfirmPayment
<1>4. ASSUME ShipOrder(p, o) PROVE IInv'
  <2>1. Writes(o)
    BY <1>1, <1>4, CommitFrees
       DEF ShipOrder, SetStatus, disputeVars, Writes, ServiceCall,
           RowsOfOthers, RowsTyped, OrderStatus
  <2>2. ledger[o].received = Total
    BY <1>4, CommitFrees DEF ShipOrder, Carries, NeedPayment
  <2>3. Kept(o) /\ account'[o].state = "IN_TRANSIT" /\ ledger' = ledger
    BY <1>1, <1>4, MoveKeeps DEF ShipOrder, E!MarkInTransit, E!EscrowState
  <2>4. Sound(o)'
    BY <1>1, <1>4, <2>2, <2>3
       DEF ShipOrder, SetStatus, disputeVars, RowsTyped, Sound, TakenAsPaid,
           Contested, Kept
  <2> QED
    BY <1>4, <2>1, <2>4, CommitFrees, CommitKeeps DEF ShipOrder
<1>5. ASSUME ConfirmDelivery(p, o) PROVE IInv'
  <2>1. Writes(o)
    BY <1>1, <1>5, CommitFrees
       DEF ConfirmDelivery, SetStatus, disputeVars, Writes, ServiceCall,
           RowsOfOthers, RowsTyped, OrderStatus
  <2>2. /\ Kept(o) /\ account'[o].state = "DELIVERED" /\ ledger' = ledger
        /\ account[o].state = "IN_TRANSIT"
    BY <1>1, <1>5, MoveKeeps
       DEF ConfirmDelivery, E!MarkDelivered, E!EscrowState, E!SetState,
           E!CanMove, E!Validate, E!Transitions
  <2>3. Sound(o)'
    BY <1>1, <1>5, <2>2
       DEF ConfirmDelivery, SetStatus, disputeVars, RowsTyped, Sound,
           TakenAsPaid, Contested, Kept
  <2> QED
    BY <1>5, <2>1, <2>3, CommitFrees, CommitKeeps DEF ConfirmDelivery
<1> QED
  BY <1>2, <1>3, <1>4, <1>5

(* The order is closed with the money.                                      *)
LEMMA ClosingKeeps ==
  ASSUME IInv, NEW p \in Requests, NEW o \in Orders,
         \/ CompleteOrder(p, o) \/ RefundBuyer(p, o) \/ ReleaseSeller(p, o)
         \/ PartialRefund(p, o)
  PROVE  IInv'
<1>1. Sound(o) /\ RowsTyped /\ EP!IInv /\ ledger[o].received \in {0, Total}
  BY DEF IInv, Sound
<1>0. ledger[o].released \in Nat /\ ledger[o].refunded \in Nat
  BY <1>1, BooksOf
<1>2. ASSUME CompleteOrder(p, o) PROVE IInv'
  <2>1. Writes(o)
    BY <1>1, <1>2, CommitFrees
       DEF CompleteOrder, SetStatus, disputeVars, Writes, ServiceCall,
           RowsOfOthers, RowsTyped, OrderStatus
  <2>2. ledger[o].received = Total
    BY <1>2, CommitFrees DEF CompleteOrder, Carries, NeedPayment
  <2>3. Sound(o)'
    BY <1>0, <1>1, <1>2, <2>2, ReleaseKeeps
       DEF CompleteOrder, SetStatus, disputeVars, RowsTyped, Sound, TakenAsPaid,
           Contested, Kept
  <2> QED
    BY <1>2, <2>1, <2>3, CommitFrees, CommitKeeps DEF CompleteOrder
<1>3. ASSUME RefundBuyer(p, o) PROVE IInv'
  <2>1. Writes(o)
    BY <1>1, <1>3, CommitFrees
       DEF RefundBuyer, SetStatus, CloseRow, Writes, ServiceCall,
           RowsOfOthers, RowsTyped, OrderStatus
  <2>2. ledger[o].received = Total
    BY <1>3, CommitFrees DEF RefundBuyer, Carries, NeedPayment
  <2>3. Sound(o)'
    BY <1>0, <1>1, <1>3, <2>2, RefundKeeps
       DEF RefundBuyer, SetStatus, RowsTyped, Sound, TakenAsPaid, Contested, Kept
  <2> QED
    BY <1>3, <2>1, <2>3, CommitFrees, CommitKeeps DEF RefundBuyer
<1>4. ASSUME ReleaseSeller(p, o) PROVE IInv'
  <2>1. Writes(o)
    BY <1>1, <1>4, CommitFrees
       DEF ReleaseSeller, SetStatus, CloseRow, Writes, ServiceCall,
           RowsOfOthers, RowsTyped, OrderStatus
  <2>2. ledger[o].received = Total
    BY <1>4, CommitFrees DEF ReleaseSeller, Carries, NeedPayment
  <2>3. Sound(o)'
    BY <1>0, <1>1, <1>4, <2>2, ReleaseKeeps
       DEF ReleaseSeller, SetStatus, RowsTyped, Sound, TakenAsPaid, Contested, Kept
  <2> QED
    BY <1>4, <2>1, <2>3, CommitFrees, CommitKeeps DEF ReleaseSeller
<1>5. ASSUME PartialRefund(p, o) PROVE IInv'
  <2>1. request[p].amount \in Amounts
    BY <1>5, CommitFrees DEF PartialRefund, Carries, E!PartialRefund
  <2>2. Writes(o)
    BY <1>1, <1>5, <2>1, CommitFrees
       DEF PartialRefund, SetStatus, CloseRow, Writes, ServiceCall,
           RowsOfOthers, RowsTyped, OrderStatus
  <2>3. ledger[o].received = Total
    BY <1>5, CommitFrees DEF PartialRefund, Carries, NeedPayment
  <2>4. Sound(o)'
    BY <1>0, <1>1, <1>5, <2>1, <2>3, PartialRefundKeeps
       DEF PartialRefund, SetStatus, RowsTyped, Sound, TakenAsPaid, Contested, Kept
  <2> QED
    BY <1>5, <2>2, <2>4, CommitFrees, CommitKeeps DEF PartialRefund
<1> QED
  BY <1>2, <1>3, <1>4, <1>5

(* The buyer's dispute: raised, resolved, withdrawn.                        *)
LEMMA DisputeKeeps ==
  ASSUME IInv, NEW p \in Requests, NEW o \in Orders,
         \/ RaiseDispute(p, o) \/ ResolveBuyerFavour(p, o)
         \/ ResolveVendorFavour(p, o) \/ WithdrawDispute(p, o)
  PROVE  IInv'
<1>1. Sound(o) /\ RowsTyped /\ EP!IInv /\ ledger[o].received \in {0, Total}
  BY DEF IInv, Sound
<1>2. /\ ledger[o].released \in Nat /\ ledger[o].refunded \in Nat
      /\ Total \in Nat \ {0}
  BY <1>1, BooksOf, TotalAssumption, ServiceAssumption
<1>3. ASSUME RaiseDispute(p, o) PROVE IInv'
  <2>1. Writes(o)
    BY <1>1, <1>3, CommitFrees
       DEF RaiseDispute, SetStatus, Writes, ServiceCall, RowsOfOthers,
           RowsTyped, OrderStatus, DisputeStatus
  <2>2. Kept(o) /\ account'[o].state = "DISPUTED" /\ ledger' = ledger
    BY <1>1, <1>3, MoveKeeps DEF RaiseDispute, E!RaiseDispute, E!EscrowState
  <2>3. ledger[o].received = Total
    BY <1>1, <1>3, BooksOf DEF RaiseDispute
  <2>4. Sound(o)'
    BY <1>1, <1>3, <2>2, <2>3
       DEF RaiseDispute, SetStatus, RowsTyped, Sound, TakenAsPaid, Contested, Kept
  <2> QED
    BY <1>3, <2>1, <2>4, CommitFrees, CommitKeeps DEF RaiseDispute
<1>4. ASSUME ResolveBuyerFavour(p, o) PROVE IInv'
  <2>1. dispute[o] # "NONE"
    BY <1>4, CommitFrees DEF ResolveBuyerFavour, Carries, NeedDispute
  <2>2. Writes(o)
    BY <1>1, <1>4, CommitFrees
       DEF ResolveBuyerFavour, Resolved, Writes, ServiceCall, RowsOfOthers,
           RowsTyped, DisputeStatus
  <2>3. ledger[o].received = Total
    BY <1>1, <2>1 DEF Sound, TakenAsPaid
  <2>4. /\ Kept(o) /\ ledger'[o].refunded > 0
        /\ account'[o].state \in {"REFUNDED", "PARTIALLY_REFUNDED"}
    BY <1>1, <1>2, <1>4, <2>3, RefundKeeps, PartialRefundKeeps
       DEF ResolveBuyerFavour
  <2>5. Sound(o)'
    BY <1>1, <1>4, <2>1, <2>3, <2>4, ClosedStays
       DEF ResolveBuyerFavour, Resolved, RowsTyped, Sound, TakenAsPaid,
           Contested, Kept
  <2> QED
    BY <1>4, <2>2, <2>5, CommitFrees, CommitKeeps DEF ResolveBuyerFavour
<1>5. ASSUME NEW outcome \in {"RESOLVED_VENDOR", "WITHDRAWN"},
             NEW op \in NeedDispute, Commit(p, op, o),
             ReleaseFunds(o), Resolved(o, outcome)
      PROVE  IInv'
  <2>1. dispute[o] # "NONE"
    BY <1>5, CommitFrees DEF Carries
  <2>2. Writes(o)
    BY <1>1, <1>5, CommitFrees
       DEF Resolved, Writes, ServiceCall, RowsOfOthers, RowsTyped, DisputeStatus
  <2>3. ledger[o].received = Total
    BY <1>1, <2>1 DEF Sound, TakenAsPaid
  <2>4. Kept(o) /\ account'[o].state = "RELEASED"
    BY <1>1, <1>5, ReleaseKeeps
  <2>5. Sound(o)'
    BY <1>1, <1>5, <2>1, <2>3, <2>4, ClosedStays
       DEF Resolved, RowsTyped, Sound, TakenAsPaid, Contested, Kept
  <2> QED
    BY <1>5, <2>2, <2>5, CommitFrees, CommitKeeps
<1> QED
  BY <1>3, <1>4, <1>5 DEF ResolveVendorFavour, WithdrawDispute, NeedDispute

(* Operations on the account alone, and auto-confirmation.                  *)
LEMMA AccountKeeps ==
  ASSUME IInv, NEW p \in Requests, NEW o \in Orders, AccountOperation(p, o)
  PROVE  IInv'
<1>1. Sound(o) /\ RowsTyped /\ EP!IInv /\ ledger[o].received \in {0, Total}
  BY DEF IInv, Sound
<1>2. ledger[o].released \in Nat /\ ledger[o].refunded \in Nat
  BY <1>1, BooksOf
<1>3. PICK op : Commit(p, op, o)
  BY DEF AccountOperation
<1>4. ServiceCall(o)
  BY DEF AccountOperation, ServiceCall
<1>5. Writes(o)
  BY <1>1, <1>3, <1>4, CommitFrees
     DEF AccountOperation, disputeVars, Writes, RowsOfOthers, RowsTyped
<1>6. Kept(o)
  BY <1>1, <1>4, CallKeeps
<1>7. /\ ledger'[o].received = ledger[o].received
      /\ account'[o].state \in {"IN_TRANSIT", "DELIVERED"} =>
           account[o].state = "IN_TRANSIT"
      /\ account'[o].state \notin {"ABSENT", "PENDING", "HELD"}
  <2>1. CASE ReleaseFunds(o)
    BY <1>1, <2>1, ReleaseKeeps
  <2>2. CASE E!Refund(o)
    BY <1>1, <2>2, RefundKeeps
  <2>3. CASE E!Freeze(o) \/ E!MarkDelivered(o)
    BY <1>1, <2>3, MoveKeeps
       DEF E!Freeze, E!MarkDelivered, E!EscrowState, E!SetState, E!CanMove,
           E!Validate, E!Transitions
  <2> QED
    BY <2>1, <2>2, <2>3 DEF AccountOperation
<1>8. TakenAsPaid(o)' => TakenAsPaid(o)
  BY DEF AccountOperation, disputeVars, TakenAsPaid
<1>9. Sound(o)'
  BY <1>1, <1>2, <1>6, <1>7, <1>8, TotalAssumption, ServiceAssumption
     DEF AccountOperation, disputeVars, Sound, Contested, Kept
<1> QED
  BY <1>3, <1>5, <1>9, CommitFrees, CommitKeeps

-----------------------------------------------------------------------------
LEMMA NextKeepsIInv == IInv /\ [Next]_vars => IInv'
<1> SUFFICES ASSUME IInv, [Next]_vars PROVE IInv'
  OBVIOUS
<1>1. CASE UNCHANGED vars
  <2>1. UNCHANGED EP!vars
    BY <1>1 DEF vars, escrowVars, EP!vars
  <2>2. EP!IInv'
    BY <2>1, EP!BooksStep, ServiceAssumption DEF IInv
  <2> QED
    BY <1>1, <2>2 DEF vars, escrowVars, IInv, RowsTyped, Sound, TakenAsPaid, Carries
<1>2. ASSUME NEW o \in Orders, CreateOrder(o) PROVE IInv'
  <2>1. Sound(o) /\ RowsTyped
    BY DEF IInv
  <2>2. Writes(o)
    BY <1>2, <2>1
       DEF CreateOrder, SetStatus, disputeVars, Writes, RowsOfOthers, RowsTyped,
           OrderStatus
  <2>3. Sound(o)'
    BY <1>2, <2>1
       DEF CreateOrder, SetStatus, disputeVars, escrowVars, RowsTyped, Sound,
           TakenAsPaid, PaidStatus
  <2> QED
    BY <1>2, <2>2, <2>3, CommitKeeps DEF CreateOrder
<1>3. ASSUME NEW p \in Requests, Begin(p) PROVE IInv'
  BY <1>3, BeginKeeps
<1>4. ASSUME NEW p \in Requests, Abandon(p) PROVE IInv'
  <2>1. UNCHANGED EP!vars
    BY <1>4 DEF Abandon, escrowVars, EP!vars
  <2>2. EP!IInv'
    BY <2>1, EP!BooksStep, ServiceAssumption DEF IInv
  <2>3. \A q \in Requests : request'[q] # NoRequest => Carries(q)'
    BY <1>4 DEF Abandon, escrowVars, disputeVars, IInv, RowsTyped, Carries
  <2> QED
    BY <1>4, <2>2, <2>3
       DEF Abandon, escrowVars, disputeVars, IInv, RowsTyped, Sound, TakenAsPaid
<1>5. ASSUME NEW p \in Requests, NEW o \in Orders,
             \/ OrderOperation(p, o) \/ DisputeOperation(p, o)
             \/ AccountOperation(p, o)
      PROVE  IInv'
  BY <1>5, StatusKeeps, FulfilmentKeeps, ClosingKeeps, DisputeKeeps, AccountKeeps
     DEF OrderOperation, DisputeOperation
<1> QED
  BY <1>1, <1>2, <1>3, <1>4, <1>5 DEF Next

(* What a request saw stays true until it commits, for any orders, requests *)
(* and amounts.                                                             *)
THEOREM RequestsStayRight == Spec => []IInv
<1>1. Init => IInv
  BY InitIInv
<1>2. IInv /\ [Next]_vars => IInv'
  BY NextKeepsIInv
<1> QED
  BY <1>1, <1>2, PTL DEF Spec

(* Types, those of the escrow rows included.                                *)
THEOREM TypeCorrect == Spec => []TypeOK
<1>1. IInv => TypeOK
  <2> SUFFICES ASSUME IInv PROVE TypeOK
    OBVIOUS
  <2>1. E!TypeOK
    BY DEF IInv, EP!IInv, EP!TypeOK, E!TypeOK, EP!Account, E!Account,
           EP!LedgerSums, E!LedgerSums, EP!Hold, E!Hold, EP!EscrowState,
           E!EscrowState, EP!Absent, E!Absent
  <2> QED
    BY <2>1 DEF IInv, RowsTyped, Carries, TypeOK
<1> QED
  BY <1>1, RequestsStayRight, PTL

(* No stale status lets goods out that were not paid for in full.           *)
THEOREM FulfilledArePaid == Spec => []NoFulfilmentUnpaid
<1>1. IInv => NoFulfilmentUnpaid
  BY DEF IInv, Sound, TakenAsPaid, PaidStatus, NoFulfilmentUnpaid
<1> QED
  BY <1>1, RequestsStayRight, PTL

(* COMPLETED and REFUNDED are backed by money that went out.                *)
THEOREM ClosedMovedMoney == Spec => []ClosedOrderMovedMoney
<1>1. IInv => ClosedOrderMovedMoney
  BY DEF IInv, Sound, ClosedOrderMovedMoney
<1> QED
  BY <1>1, RequestsStayRight, PTL

(* A dispute's outcome says where the money went.                           *)
THEOREM OutcomesMatchMoney == Spec => []DisputeOutcomeMatchesMoney
<1>1. IInv => DisputeOutcomeMatchesMoney
  BY DEF IInv, Sound, DisputeOutcomeMatchesMoney
<1> QED
  BY <1>1, RequestsStayRight, PTL

(* A dispute ends the way to automatic release for good.                    *)
THEOREM DisputesStopAutoConfirm == Spec => []DisputeStopsAutoConfirm
<1>1. IInv => DisputeStopsAutoConfirm
  BY DEF IInv, Sound, Contested, DisputeStopsAutoConfirm
<1> QED
  BY <1>1, RequestsStayRight, PTL

-----------------------------------------------------------------------------
(* The composed system is one of the escrow service's callers: whatever     *)
(* orders, disputes, admins and tasks do, the accounts see only what        *)
(* EscrowService lets them do, so that its promises hold here too.          *)
LEMMA StepIsServiceStep == IInv /\ [Next]_vars => [EP!Next]_(EP!vars)
<1> SUFFICES ASSUME IInv, [Next]_vars, ~UNCHANGED escrowVars
             PROVE  EP!Next
  BY DEF escrowVars, EP!vars
<1>1. PICK o \in Orders : ServiceCall(o)
  <2>1. \E p \in Requests, o \in Orders :
          \/ OrderOperation(p, o) \/ DisputeOperation(p, o)
          \/ AccountOperation(p, o)
    BY DEF Next, vars, CreateOrder, Abandon, Begin, BeginOrderOperation,
           BeginResolution, BeginDispute, BeginAccountOperation, Open
  <2>2. PICK p \in Requests, o \in Orders :
          \/ OrderOperation(p, o) \/ DisputeOperation(p, o)
          \/ AccountOperation(p, o)
    BY <2>1
  <2>3. PartialRefund(p, o) => request[p].amount \in Amounts
    BY CommitFrees DEF PartialRefund, Carries, E!PartialRefund
  <2> QED
    BY <2>2, <2>3
       DEF OrderOperation, DisputeOperation, AccountOperation, ServiceCall,
           SubmitOrder, ConfirmPayment, AcknowledgeOrder, ShipOrder,
           ConfirmDelivery, CompleteOrder, CancelOrder, DisputeOrder, RefundBuyer,
           ReleaseSeller, PartialRefund, RaiseDispute, AssignDispute,
           ResolveBuyerFavour, ResolveVendorFavour, WithdrawDispute
<1> QED
  BY <1>1, CallIsStep

(* Whatever orders, disputes, admins and tasks do, an order's escrow        *)
(* account only ever goes through the operations of EscrowService.          *)
THEOREM AccountsFollowService == Spec => EP!Spec
<1>1. Init => EP!Init
  BY DEF Init, E!Init, EP!Init, E!Absent, EP!Absent
<1> QED
  BY <1>1, StepIsServiceStep, RequestsStayRight, PTL DEF Spec, EP!Spec

(* In the composed system, too, every ngwee of an order goes where          *)
(* FundsCustody says.                                                       *)
THEOREM MarketplaceKeepsCustody == Spec => EP!CustodySpec
BY AccountsFollowService, EP!EscrowKeepsCustody, ServiceAssumption, PTL

-----------------------------------------------------------------------------
(* The marketplace implements Sale.                                         *)

(* Sale sees an account change, and nothing of the other orders.            *)
LEMMA PhaseStep ==
  ASSUME NEW o \in Orders, NEW next, PhaseOf(o)' = next,
         \A b \in Orders \ {o} : account'[b] = account[b] /\ ledger'[b] = ledger[b]
  PROVE  [b \in Orders |-> PhaseOf(b)]' =
           [[b \in Orders |-> PhaseOf(b)] EXCEPT ![o] = next]
<1>1. \A b \in Orders \ {o} : PhaseOf(b)' = PhaseOf(b)
  BY DEF PhaseOf
<1> HIDE DEF PhaseOf
<1>2. [b \in Orders |-> PhaseOf(b)]' = [b \in Orders |-> PhaseOf(b)']
  OBVIOUS
<1> QED
  BY <1>1, <1>2

(* The sets Sale reads off the rows.                                        *)
SameDisputes ==
  \A b \in Orders : (dispute'[b] # "NONE") = (dispute[b] # "NONE")

LEMMA ContestedStay ==
  ASSUME SameDisputes
  PROVE  {o \in Orders : dispute[o] # "NONE"}' = {o \in Orders : dispute[o] # "NONE"}
BY DEF SameDisputes

(* A call that ships nothing and contests nothing.                          *)
LEMMA CallIsSaleStep ==
  ASSUME IInv, NEW o \in Orders, shipped' = shipped, SameDisputes,
         \/ E!CreateAccount(o) \/ E!HoldFunds(o, Total) \/ E!MarkDelivered(o)
         \/ E!Freeze(o) \/ ReleaseFunds(o) \/ E!Refund(o)
         \/ \E amount \in Amounts : E!PartialRefund(o, amount)
  PROVE  [S!Next]_(S!vars)
<1>1. /\ Sound(o) /\ EP!IInv /\ ledger[o].received \in {0, Total}
      /\ Total \in Nat \ {0}
  BY TotalAssumption, ServiceAssumption DEF IInv, Sound
<1>2. Kept(o)
  BY <1>1, CallKeeps DEF ServiceCall
<1>3. \A b \in Orders \ {o} : account'[b] = account[b] /\ ledger'[b] = ledger[b]
  BY <1>2 DEF Kept
<1>4. UNCHANGED <<shipped, {b \in Orders : dispute[b] # "NONE"}>>
  BY ContestedStay
<1>5. \A next : PhaseOf(o)' = next =>
        [b \in Orders |-> PhaseOf(b)]' =
          [[b \in Orders |-> PhaseOf(b)] EXCEPT ![o] = next]
  BY <1>3, PhaseStep
<1>6. ASSUME PhaseOf(o)' = PhaseOf(o) PROVE UNCHANGED S!vars
  <2>1. [b \in Orders |-> PhaseOf(b)]' = [b \in Orders |-> PhaseOf(b)]
    BY <1>5, <1>6
  <2> QED
    BY <1>4, <2>1 DEF S!vars
<1>7. CASE E!CreateAccount(o)
  <2>1. PhaseOf(o) = "new" /\ PhaseOf(o)' = "new"
    BY <1>1, <1>7, CreateKeeps, BooksOf DEF PhaseOf
  <2> QED
    BY <1>6, <2>1
<1>8. CASE E!HoldFunds(o, Total)
  <2>1. PhaseOf(o) = "new" /\ PhaseOf(o)' = "on course"
    BY <1>1, <1>8, HoldKeeps DEF PhaseOf
  <2>2. S!Pay(o)
    BY <1>4, <1>5, <2>1 DEF S!Pay, S!Become
  <2> QED
    BY <2>2 DEF S!Next
<1>9. CASE E!MarkDelivered(o)
  <2>1. account[o].state = "IN_TRANSIT"
    BY <1>9 DEF E!MarkDelivered, E!SetState, E!CanMove, E!Validate,
                E!Transitions, E!EscrowState
  <2>2. account'[o].state = "DELIVERED" /\ ledger' = ledger
    BY <1>1, <1>9, MoveKeeps DEF E!MarkDelivered, E!EscrowState
  <2>3. PhaseOf(o)' = PhaseOf(o)
    BY <2>1, <2>2 DEF PhaseOf
  <2> QED
    BY <1>6, <2>3
<1>10. CASE E!Freeze(o)
  <2>1. account[o].state \notin {"RELEASED", "REFUNDED"}
    BY <1>10 DEF E!Freeze, E!SetState, E!CanMove, E!Validate, E!Transitions,
                 E!EscrowState
  <2>2. account'[o].state = "FROZEN" /\ ledger' = ledger
    BY <1>1, <1>10, MoveKeeps DEF E!Freeze, E!EscrowState
  <2>3. CASE PhaseOf(o)' = PhaseOf(o)
    BY <1>6, <2>3
  <2>4. CASE PhaseOf(o)' # PhaseOf(o)
    <3>1. PhaseOf(o) = "on course" /\ PhaseOf(o)' = "stopped"
      BY <2>1, <2>2, <2>4 DEF PhaseOf
    <3>2. S!Stop(o)
      BY <1>4, <1>5, <3>1 DEF S!Stop, S!Become
    <3> QED
      BY <3>2 DEF S!Next
  <2> QED
    BY <2>3, <2>4
<1>11. CASE ReleaseFunds(o)
  <2>1. account[o].balance > 0
    BY <1>11 DEF ReleaseFunds, E!ReleaseFunds, E!MayRelease
  <2>2. ledger[o].received > 0
    BY <1>1, <2>1, BooksOf
  <2>3. /\ PhaseOf(o) = "stopped" \/ (PhaseOf(o) = "on course" /\ o \in shipped)
        /\ PhaseOf(o)' = "vendor paid"
    BY <1>1, <1>11, <2>2, ReleaseKeeps DEF PhaseOf, Sound, Contested
  <2>4. S!PayVendor(o)
    BY <1>4, <1>5, <2>3 DEF S!PayVendor, S!Become
  <2> QED
    BY <2>4 DEF S!Next
<1>12. CASE E!Refund(o)
  <2>1. /\ account[o].state \in Contested \cup {"HELD"}
        /\ account[o].state \notin {"RELEASED", "REFUNDED"}
        /\ account'[o].state = "REFUNDED"
        /\ ledger'[o].received = ledger[o].received
    BY <1>1, <1>12, RefundKeeps
  <2>2. CASE ledger[o].received = 0
    <3>1. PhaseOf(o) = "new" /\ PhaseOf(o)' = "void"
      BY <2>1, <2>2 DEF PhaseOf
    <3>2. S!Void(o)
      BY <1>4, <1>5, <3>1 DEF S!Void, S!Become
    <3> QED
      BY <3>2 DEF S!Next
  <2>3. CASE ledger[o].received = Total
    <3>1. /\ \/ PhaseOf(o) = "stopped"
             \/ PhaseOf(o) = "on course" /\ o \notin shipped
          /\ PhaseOf(o)' = "buyer refunded"
      BY <1>1, <2>1, <2>3 DEF PhaseOf, Sound, Contested
    <3>2. S!RefundBuyer(o)
      BY <1>4, <1>5, <3>1 DEF S!RefundBuyer, S!Become
    <3> QED
      BY <3>2 DEF S!Next
  <2> QED
    BY <1>1, <2>2, <2>3
<1>13. ASSUME NEW amount \in Amounts, E!PartialRefund(o, amount)
       PROVE  [S!Next]_(S!vars)
  <2>1. /\ account[o].state \in {"HELD", "DISPUTED", "PARTIALLY_REFUNDED"}
        /\ account'[o].state = "PARTIALLY_REFUNDED"
        /\ ledger'[o].received = ledger[o].received
    BY <1>1, <1>13, PartialRefundKeeps
  <2>2. amount > 0 /\ amount <= account[o].balance /\ amount \in Int
    BY <1>13, ServiceAssumption DEF E!PartialRefund
  <2>3. ledger[o].received > 0
    BY <1>1, <2>2, BooksOf
  <2>4. CASE account[o].state = "HELD"
    <3>1. PhaseOf(o) = "on course" /\ PhaseOf(o)' = "stopped"
      BY <1>1, <2>1, <2>3, <2>4 DEF PhaseOf
    <3>2. S!Stop(o)
      BY <1>4, <1>5, <3>1 DEF S!Stop, S!Become
    <3> QED
      BY <3>2 DEF S!Next
  <2>5. CASE account[o].state # "HELD"
    <3>1. PhaseOf(o)' = PhaseOf(o)
      BY <1>1, <2>1, <2>3, <2>5 DEF PhaseOf
    <3> QED
      BY <1>6, <3>1
  <2> QED
    BY <2>4, <2>5
<1> QED
  BY <1>7, <1>8, <1>9, <1>10, <1>11, <1>12, <1>13

LEMMA ShipIsSaleStep ==
  ASSUME IInv, NEW p \in Requests, NEW o \in Orders, ShipOrder(p, o)
  PROVE  S!Next
<1>1. Sound(o) /\ EP!IInv /\ ledger[o].received \in {0, Total}
  BY DEF IInv, Sound
<1>2. account[o].state = "HELD"
  BY DEF ShipOrder, E!MarkInTransit, E!SetState, E!CanMove, E!Validate,
         E!Transitions, E!EscrowState
<1>3. Kept(o) /\ account'[o].state = "IN_TRANSIT" /\ ledger' = ledger
  BY <1>1, MoveKeeps DEF ShipOrder, E!MarkInTransit, E!EscrowState
<1>4. ledger[o].received # 0
  BY <1>1, <1>2, BooksOf
<1>5. PhaseOf(o) = "on course" /\ PhaseOf(o)' = "on course"
  BY <1>2, <1>3, <1>4 DEF PhaseOf
<1>6. [b \in Orders |-> PhaseOf(b)]' = [b \in Orders |-> PhaseOf(b)]
  <2>1. [b \in Orders |-> PhaseOf(b)]' =
          [[b \in Orders |-> PhaseOf(b)] EXCEPT ![o] = "on course"]
    BY <1>3, <1>5, PhaseStep DEF Kept
  <2> QED
    BY <1>5, <2>1
<1>7. o \notin shipped /\ dispute[o] = "NONE"
  BY <1>1, <1>2 DEF Sound, Contested
<1>8. S!Send(o)
  BY <1>5, <1>6, <1>7 DEF ShipOrder, disputeVars, S!Send
<1> QED
  BY <1>8 DEF S!Next

LEMMA DisputeIsSaleStep ==
  ASSUME IInv, NEW p \in Requests, NEW o \in Orders, RaiseDispute(p, o)
  PROVE  S!Next
<1>1. /\ Sound(o) /\ EP!IInv /\ RowsTyped
      /\ ledger[o].received \in {0, Total}
  BY DEF IInv, Sound
<1>2. account[o].state = "DELIVERED" /\ dispute[o] = "NONE"
  BY DEF RaiseDispute
<1>3. Kept(o) /\ account'[o].state = "DISPUTED" /\ ledger' = ledger
  BY <1>1, MoveKeeps DEF RaiseDispute, E!RaiseDispute, E!EscrowState
<1>4. ledger[o].received # 0
  BY <1>1, <1>2, BooksOf
<1>5. PhaseOf(o) = "on course" /\ PhaseOf(o)' = "stopped"
  BY <1>2, <1>3, <1>4 DEF PhaseOf
<1>6. [b \in Orders |-> PhaseOf(b)]' =
        [[b \in Orders |-> PhaseOf(b)] EXCEPT ![o] = "stopped"]
  BY <1>3, <1>5, PhaseStep DEF Kept
<1>7. o \in shipped /\ shipped' = shipped
  BY <1>1, <1>2 DEF Sound, RaiseDispute
<1>8. dispute' = [dispute EXCEPT ![o] = "OPEN"]
  BY DEF RaiseDispute
<1>9. {b \in Orders : dispute[b] # "NONE"}' =
        {b \in Orders : dispute[b] # "NONE"} \cup {o}
  BY <1>1, <1>8 DEF RowsTyped
<1>10. S!Contest(o)
  BY <1>2, <1>5, <1>6, <1>7, <1>9 DEF S!Contest, S!Become
<1> QED
  BY <1>10 DEF S!Next

(* Resolutions and withdrawals write over a dispute that exists.            *)
LEMMA DisputesOnlyRaised ==
  ASSUME IInv, NEW p \in Requests, NEW o \in Orders,
         \/ OrderOperation(p, o) \/ DisputeOperation(p, o)
         \/ AccountOperation(p, o),
         ~RaiseDispute(p, o)
  PROVE  SameDisputes
<1>1. dispute \in [Orders -> DisputeStatus \cup {"NONE"}]
  BY DEF IInv, RowsTyped
<1>2. CASE dispute' = dispute
  BY <1>2 DEF SameDisputes
<1>3. ASSUME NEW op \in NeedDispute, Commit(p, op, o),
             NEW status \in DisputeStatus,
             dispute' = [dispute EXCEPT ![o] = status]
      PROVE  SameDisputes
  <2>1. dispute[o] # "NONE"
    BY <1>3, CommitFrees DEF Carries
  <2> QED
    BY <1>1, <1>3, <2>1 DEF SameDisputes, DisputeStatus
<1>4. CASE \/ AssignDispute(p, o) \/ ResolveBuyerFavour(p, o)
           \/ ResolveVendorFavour(p, o) \/ WithdrawDispute(p, o)
  BY <1>3, <1>4
     DEF AssignDispute, ResolveBuyerFavour, ResolveVendorFavour,
         WithdrawDispute, Resolved, NeedDispute, DisputeStatus
<1>5. CASE OrderOperation(p, o) \/ AccountOperation(p, o)
  BY <1>2, <1>5
     DEF OrderOperation, AccountOperation, disputeVars, SubmitOrder,
         ConfirmPayment, AcknowledgeOrder, ShipOrder, ConfirmDelivery,
         CompleteOrder, CancelOrder, DisputeOrder, RefundBuyer, ReleaseSeller,
         PartialRefund
<1> QED
  BY <1>4, <1>5 DEF DisputeOperation

LEMMA StepIsSaleStep == IInv /\ [Next]_vars => [S!Next]_(S!vars)
<1> SUFFICES ASSUME IInv, [Next]_vars PROVE [S!Next]_(S!vars)
  OBVIOUS
<1>1. ASSUME UNCHANGED escrowVars, shipped' = shipped, SameDisputes
      PROVE  UNCHANGED S!vars
  <2>1. [b \in Orders |-> PhaseOf(b)]' = [b \in Orders |-> PhaseOf(b)]
    BY <1>1 DEF escrowVars, PhaseOf
  <2> QED
    BY <1>1, <2>1, ContestedStay DEF S!vars
<1>2. CASE \/ UNCHANGED vars \/ \E o \in Orders : CreateOrder(o)
           \/ \E p \in Requests : Begin(p) \/ Abandon(p)
  <2>1. UNCHANGED <<escrowVars, shipped, dispute>>
    BY <1>2
       DEF vars, CreateOrder, disputeVars, Abandon, Begin, BeginOrderOperation,
           BeginResolution, BeginDispute, BeginAccountOperation, Open
  <2> QED
    BY <1>1, <2>1 DEF SameDisputes
<1>3. ASSUME NEW p \in Requests, NEW o \in Orders,
             \/ OrderOperation(p, o) \/ DisputeOperation(p, o)
             \/ AccountOperation(p, o),
             ~ShipOrder(p, o), ~RaiseDispute(p, o)
      PROVE  [S!Next]_(S!vars)
  <2>1. SameDisputes
    BY <1>3, DisputesOnlyRaised
  <2>2. PartialRefund(p, o) => request[p].amount \in Amounts
    BY CommitFrees DEF PartialRefund, Carries, E!PartialRefund
  <2>3. shipped' = shipped
    BY <1>3
       DEF OrderOperation, DisputeOperation, AccountOperation, disputeVars,
           SubmitOrder, ConfirmPayment, AcknowledgeOrder, ConfirmDelivery,
           CompleteOrder, CancelOrder, DisputeOrder, RefundBuyer, ReleaseSeller,
           PartialRefund, AssignDispute, ResolveBuyerFavour,
           ResolveVendorFavour, WithdrawDispute, Resolved
  <2>4. \/ UNCHANGED escrowVars
        \/ E!CreateAccount(o) \/ E!HoldFunds(o, Total) \/ E!MarkDelivered(o)
        \/ E!Freeze(o) \/ ReleaseFunds(o) \/ E!Refund(o)
        \/ \E amount \in Amounts : E!PartialRefund(o, amount)
    BY <1>3, <2>2
       DEF OrderOperation, DisputeOperation, AccountOperation, SubmitOrder,
           ConfirmPayment, AcknowledgeOrder, ConfirmDelivery, CompleteOrder,
           CancelOrder, DisputeOrder, RefundBuyer, ReleaseSeller, PartialRefund,
           AssignDispute, ResolveBuyerFavour, ResolveVendorFavour,
           WithdrawDispute
  <2> QED
    BY <1>1, <2>1, <2>3, <2>4, CallIsSaleStep
<1> QED
  BY <1>2, <1>3, ShipIsSaleStep, DisputeIsSaleStep DEF Next

(* Orders, disputes, staff and tasks together keep the promise of Sale:     *)
(* paid once, sent before it is contested, stopped for good, settled once.  *)
THEOREM MarketplaceIsSale == Spec => SaleSpec
<1>1. Init => S!Init
  <2> SUFFICES ASSUME Init PROVE S!Init
    OBVIOUS
  <2>1. \A o \in Orders : PhaseOf(o) = "new"
    BY DEF Init, E!Init, E!Absent, PhaseOf
  <2> QED
    BY <2>1 DEF Init, S!Init
<1> QED
  BY <1>1, StepIsSaleStep, RequestsStayRight, PTL DEF Spec, SaleSpec, S!Spec
=============================================================================
