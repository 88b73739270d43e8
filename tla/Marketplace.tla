---------------------------- MODULE Marketplace ----------------------------
(***************************************************************************)
(* Orders, order disputes, buyer disputes and the escrow account they       *)
(* share: apps/orders/services.py, apps/disputes/services.py, the escrow    *)
(* admin and the hold task, all calling EscrowService.                      *)
(*                                                                          *)
(* A request reads the Order (or OrderDispute, Dispute, EscrowAccount) row  *)
(* without locking it, checks it, and only then runs a transaction that     *)
(* overwrites the row's status.  The one thing read under a lock is the     *)
(* escrow account, inside EscrowService.  So a request is two steps here:   *)
(* Begin evaluates every check on the copy, and the operation's own action  *)
(* commits on whatever the rows are by then.  A request whose transaction   *)
(* raises, loses its database connection or is chosen as a deadlock victim  *)
(* (some operations lock order then account, others account then order)     *)
(* leaves nothing behind: Abandon.                                          *)
(***************************************************************************)
EXTENDS Integers

CONSTANTS Orders, Amounts, FeePercent, MlScores, NoScore, MaxVersion,
          Total,        \* total_amount of an order, what a payment must match
          DisputeRows,  \* primary keys of the OrderDispute rows of an order
          Requests,     \* concurrent requests, tasks and admin actions
          NoRequest

ASSUME TotalAssumption == Total \in Amounts /\ Total > 0
ASSUME ServiceAssumption ==
  Amounts \subseteq Int /\ FeePercent \in 0..100 /\ MaxVersion \in Nat

VARIABLES account, ledger, hold, gateLog, raised

(* Orders are the order_refs of the accounts.                               *)
E == INSTANCE Escrow WITH Accounts <- Orders

VARIABLES
  order,         \* Order.status
  shipped,       \* orders with an OrderShipment row
  orderDispute,  \* per order, its OrderDispute rows: none, open or resolved
  dispute,       \* status of the order's Dispute row, or NONE
  request        \* per request, the operation whose checks have passed

escrowVars == <<account, ledger, hold, gateLog, raised>>
vars == <<escrowVars, order, shipped, orderDispute, dispute, request>>

OrderStatus ==
  {"DRAFT", "PENDING_PAYMENT", "PAYMENT_RECEIVED", "PROCESSING", "SHIPPED",
   "DELIVERED", "COMPLETED", "DISPUTED", "CANCELLED", "REFUNDED"}

DisputeStatus ==
  {"OPEN", "UNDER_REVIEW", "RESOLVED_BUYER", "RESOLVED_VENDOR", "WITHDRAWN"}

Actors == {"buyer", "seller", "staff"}

(* ORDER_TRANSITIONS                                                        *)
OrderTransitions ==
  [ NONE             |-> {},
    DRAFT            |-> {"PENDING_PAYMENT", "CANCELLED"},
    PENDING_PAYMENT  |-> {"PAYMENT_RECEIVED", "CANCELLED"},
    PAYMENT_RECEIVED |-> {"PROCESSING", "DISPUTED", "CANCELLED"},
    PROCESSING       |-> {"SHIPPED", "DISPUTED", "CANCELLED"},
    SHIPPED          |-> {"DELIVERED", "DISPUTED"},
    DELIVERED        |-> {"COMPLETED", "DISPUTED"},
    DISPUTED         |-> {"COMPLETED", "REFUNDED"},
    COMPLETED        |-> {},
    CANCELLED        |-> {},
    REFUNDED         |-> {} ]

(* The status each operation of OrderService asserts it can move to, and    *)
(* who may call it (assert_order_party and the checks next to it; the hold  *)
(* task acts as the buyer).                                                 *)
Target ==
  [ submit           |-> "PENDING_PAYMENT",
    confirm_payment  |-> "PAYMENT_RECEIVED",
    acknowledge      |-> "PROCESSING",
    ship             |-> "SHIPPED",
    confirm_delivery |-> "DELIVERED",
    complete         |-> "COMPLETED",
    cancel           |-> "CANCELLED",
    dispute_order    |-> "DISPUTED" ]

Callers ==
  [ submit           |-> {"buyer", "staff"},
    confirm_payment  |-> {"buyer"},
    acknowledge      |-> {"seller", "staff"},
    ship             |-> {"seller", "staff"},
    confirm_delivery |-> {"buyer", "staff"},
    complete         |-> {"buyer", "seller", "staff"},
    cancel           |-> {"buyer", "staff"},
    dispute_order    |-> {"buyer", "seller", "staff"} ]

CancellableByBuyer == {"DRAFT", "PENDING_PAYMENT"}

DisputeIsOpen(status) == status \in {"OPEN", "UNDER_REVIEW"}

Request(op, o, actor, row, amount) ==
  [op |-> op, order |-> o, actor |-> actor, row |-> row, amount |-> amount]

TypeOK ==
  /\ E!TypeOK
  /\ order \in [Orders -> OrderStatus \cup {"NONE"}]
  /\ shipped \subseteq Orders
  /\ orderDispute \in
       [Orders -> [DisputeRows -> {"none", "open", "resolved"}]]
  /\ dispute \in [Orders -> DisputeStatus \cup {"NONE"}]
  /\ \A p \in Requests : request[p] # NoRequest =>
       request[p].order \in Orders /\ request[p].actor \in Actors

Init ==
  /\ E!Init
  /\ order = [o \in Orders |-> "NONE"]
  /\ shipped = {}
  /\ orderDispute = [o \in Orders |-> [d \in DisputeRows |-> "none"]]
  /\ dispute = [o \in Orders |-> "NONE"]
  /\ request = [p \in Requests |-> NoRequest]

-----------------------------------------------------------------------------
(* The checks on the unlocked copy.                                         *)

Open(p, op, o, actor, row, amount) ==
  /\ request[p] = NoRequest
  /\ request' = [request EXCEPT ![p] = Request(op, o, actor, row, amount)]
  /\ UNCHANGED <<escrowVars, order, shipped, orderDispute, dispute>>

(* OrderService: assert_transition and the caller checks.                   *)
BeginOrderOperation(p, op, o, actor) ==
  /\ Target[op] \in OrderTransitions[order[o]]
  /\ actor \in Callers[op]
  /\ op = "cancel" /\ actor = "buyer" => order[o] \in CancellableByBuyer
  /\ Open(p, op, o, actor, NoRequest, 0)

(* OrderService.resolve_dispute: staff only, is_open on the copy.  For a    *)
(* partial refund it also compares the amount with the balance, before the  *)
(* account is locked.                                                       *)
BeginResolution(p, op, o, row, amount) ==
  /\ orderDispute[o][row] = "open"
  /\ op = "partial_refund" <=> amount > 0
  /\ amount > 0 => amount < account[o].balance
  /\ Open(p, op, o, "staff", row, amount)

(* DisputeService: the buyer raises and withdraws, staff do the rest.       *)
BeginDispute(p, op, o) ==
  \/ /\ op = "raise_dispute"
     /\ order[o] = "DELIVERED"
     /\ Open(p, op, o, "buyer", NoRequest, 0)
  \/ /\ op = "withdraw"
     /\ DisputeIsOpen(dispute[o])
     /\ Open(p, op, o, "buyer", NoRequest, 0)
  \/ /\ op = "assign"
     /\ dispute[o] = "OPEN"
     /\ Open(p, op, o, "staff", NoRequest, 0)
  \/ /\ op \in {"resolve_buyer", "resolve_vendor"}
     /\ DisputeIsOpen(dispute[o])
     /\ Open(p, op, o, "staff", NoRequest, 0)

(* EscrowAccountAdmin: the querysets of the three admin actions; and the    *)
(* queryset of auto_confirm_delivered (see AutoConfirm).                    *)
AdminFilter ==
  [ admin_release |-> {"DELIVERED"},
    admin_freeze  |-> E!EscrowState \ {"RELEASED", "REFUNDED", "FROZEN"},
    admin_refund  |-> {"DISPUTED", "HELD", "FROZEN"},
    auto_confirm  |-> {"IN_TRANSIT"} ]

BeginAccountOperation(p, op, o) ==
  /\ account[o].state \in AdminFilter[op]
  /\ Open(p, op, o, "staff", NoRequest, 0)

Begin(p) ==
  \E o \in Orders :
    \/ \E op \in DOMAIN Target, actor \in Actors :
         BeginOrderOperation(p, op, o, actor)
    \/ \E row \in DisputeRows, amount \in Amounts \cup {0} :
       \E op \in {"refund_buyer", "release_seller", "partial_refund"} :
         BeginResolution(p, op, o, row, amount)
    \/ \E op \in {"raise_dispute", "withdraw", "assign", "resolve_buyer",
                  "resolve_vendor"} : BeginDispute(p, op, o)
    \/ \E op \in DOMAIN AdminFilter : BeginAccountOperation(p, op, o)

-----------------------------------------------------------------------------
(* The transactions.                                                        *)

Commit(p, op, o) ==
  /\ request[p] # NoRequest
  /\ request[p].op = op
  /\ request[p].order = o
  /\ request' = [request EXCEPT ![p] = NoRequest]

SetStatus(o, status) == order' = [order EXCEPT ![o] = status]

disputeVars == <<orderDispute, dispute>>

(* The fraud gate of these callers gets neither flags nor a score.          *)
ReleaseFunds(o) == E!ReleaseFunds(o, FALSE, NoScore)

CreateOrder(o) ==
  /\ order[o] = "NONE"
  /\ SetStatus(o, "DRAFT")
  /\ UNCHANGED <<escrowVars, shipped, disputeVars, request>>

SubmitOrder(p, o) ==
  /\ Commit(p, "submit", o)
  /\ E!CreateAccount(o)
  /\ SetStatus(o, "PENDING_PAYMENT")
  /\ UNCHANGED <<shipped, disputeVars>>

(* Variant: the order is marked paid before the funds are held.             *)
ConfirmPaymentUnheld(p, o) ==
  /\ Commit(p, "confirm_payment", o)
  /\ SetStatus(o, "PAYMENT_RECEIVED")
  /\ UNCHANGED <<escrowVars, shipped, disputeVars>>

ConfirmPayment(p, o) ==
  /\ Commit(p, "confirm_payment", o)
  /\ E!HoldFunds(o, Total)
  /\ SetStatus(o, "PAYMENT_RECEIVED")
  /\ UNCHANGED <<shipped, disputeVars>>

AcknowledgeOrder(p, o) ==
  /\ Commit(p, "acknowledge", o)
  /\ SetStatus(o, "PROCESSING")
  /\ UNCHANGED <<escrowVars, shipped, disputeVars>>

(* Variant: the account is not told that the goods have left.               *)
ShipOrderUnmarked(p, o) ==
  /\ Commit(p, "ship", o)
  /\ o \notin shipped
  /\ shipped' = shipped \cup {o}
  /\ account[o].state = "HELD"
  /\ SetStatus(o, "SHIPPED")
  /\ UNCHANGED <<escrowVars, disputeVars>>

(* OrderShipment.order is unique.                                           *)
ShipOrder(p, o) ==
  /\ Commit(p, "ship", o)
  /\ o \notin shipped
  /\ shipped' = shipped \cup {o}
  /\ E!MarkInTransit(o)
  /\ SetStatus(o, "SHIPPED")
  /\ UNCHANGED disputeVars

ConfirmDelivery(p, o) ==
  /\ Commit(p, "confirm_delivery", o)
  /\ E!MarkDelivered(o)
  /\ SetStatus(o, "DELIVERED")
  /\ UNCHANGED <<shipped, disputeVars>>

(* Variant: FraudGateError and the like are caught and the order completed. *)
CompleteUnreleased(p, o) ==
  /\ Commit(p, "complete", o)
  /\ ReleaseFunds(o) \/ UNCHANGED escrowVars
  /\ SetStatus(o, "COMPLETED")
  /\ UNCHANGED <<shipped, disputeVars>>

CompleteOrder(p, o) ==
  /\ Commit(p, "complete", o)
  /\ ReleaseFunds(o)
  /\ SetStatus(o, "COMPLETED")
  /\ UNCHANGED <<shipped, disputeVars>>

CancelOrder(p, o) ==
  /\ Commit(p, "cancel", o)
  /\ SetStatus(o, "CANCELLED")
  /\ UNCHANGED <<escrowVars, shipped, disputeVars>>

(* OrderService.raise_dispute leaves the account alone.                     *)
DisputeOrder(p, o) ==
  /\ Commit(p, "dispute_order", o)
  /\ SetStatus(o, "DISPUTED")
  /\ \E row \in DisputeRows :
       /\ orderDispute[o][row] = "none"
       /\ orderDispute' = [orderDispute EXCEPT ![o][row] = "open"]
  /\ UNCHANGED <<escrowVars, shipped, dispute>>

CloseRow(p, o) ==
  orderDispute' = [orderDispute EXCEPT ![o][request[p].row] = "resolved"]

(* OrderService.resolve_dispute, one action per resolution.                 *)
RefundBuyer(p, o) ==
  /\ Commit(p, "refund_buyer", o)
  /\ E!Refund(o)
  /\ SetStatus(o, "REFUNDED")
  /\ CloseRow(p, o)
  /\ UNCHANGED <<shipped, dispute>>

ReleaseSeller(p, o) ==
  /\ Commit(p, "release_seller", o)
  /\ ReleaseFunds(o)
  /\ SetStatus(o, "COMPLETED")
  /\ CloseRow(p, o)
  /\ UNCHANGED <<shipped, dispute>>

PartialRefund(p, o) ==
  /\ Commit(p, "partial_refund", o)
  /\ E!PartialRefund(o, request[p].amount)
  /\ SetStatus(o, "COMPLETED")
  /\ CloseRow(p, o)
  /\ UNCHANGED <<shipped, dispute>>

(* DisputeService.raise_dispute: the row is unique per order, the account   *)
(* must be DELIVERED under its lock.                                        *)
RaiseDispute(p, o) ==
  /\ Commit(p, "raise_dispute", o)
  /\ dispute[o] = "NONE"
  /\ account[o].state = "DELIVERED"
  /\ E!RaiseDispute(o)
  /\ SetStatus(o, "DISPUTED")
  /\ dispute' = [dispute EXCEPT ![o] = "OPEN"]
  /\ UNCHANGED <<shipped, orderDispute>>

(* assign_dispute saves over whatever the status has become.                *)
AssignDispute(p, o) ==
  /\ Commit(p, "assign", o)
  /\ dispute' = [dispute EXCEPT ![o] = "UNDER_REVIEW"]
  /\ UNCHANGED <<escrowVars, order, shipped, orderDispute>>

Resolved(o, status) ==
  /\ dispute' = [dispute EXCEPT ![o] = status]
  /\ UNCHANGED <<order, shipped, orderDispute>>

(* refund_amount omitted or equal to the balance, or less than it.          *)
ResolveBuyerFavour(p, o) ==
  /\ Commit(p, "resolve_buyer", o)
  /\ \/ E!Refund(o)
     \/ \E amount \in Amounts :
          amount < account[o].balance /\ E!PartialRefund(o, amount)
  /\ Resolved(o, "RESOLVED_BUYER")

(* Variant: the release is attempted, and its failure is ignored.           *)
ResolveVendorRegardless(p, o) ==
  /\ Commit(p, "resolve_vendor", o)
  /\ \/ ReleaseFunds(o)
     \/ ~E!MayRelease(o) /\ UNCHANGED escrowVars
  /\ Resolved(o, "RESOLVED_VENDOR")

ResolveVendorFavour(p, o) ==
  /\ Commit(p, "resolve_vendor", o)
  /\ ReleaseFunds(o)
  /\ Resolved(o, "RESOLVED_VENDOR")

WithdrawDispute(p, o) ==
  /\ Commit(p, "withdraw", o)
  /\ ReleaseFunds(o)
  /\ Resolved(o, "WITHDRAWN")

(* The admin actions and auto_confirm_delivered touch the account only.     *)
AccountOperation(p, o) ==
  /\ \/ Commit(p, "admin_release", o) /\ ReleaseFunds(o)
     \/ Commit(p, "admin_freeze", o) /\ E!Freeze(o)
     \/ Commit(p, "admin_refund", o) /\ E!Refund(o)
     \/ Commit(p, "auto_confirm", o) /\ E!MarkDelivered(o)
  /\ UNCHANGED <<order, shipped, disputeVars>>

Abandon(p) ==
  /\ request[p] # NoRequest
  /\ request' = [request EXCEPT ![p] = NoRequest]
  /\ UNCHANGED <<escrowVars, order, shipped, disputeVars>>

OrderOperation(p, o) ==
  \/ SubmitOrder(p, o)
  \/ ConfirmPayment(p, o)
  \/ AcknowledgeOrder(p, o)
  \/ ShipOrder(p, o)
  \/ ConfirmDelivery(p, o)
  \/ CompleteOrder(p, o)
  \/ CancelOrder(p, o)
  \/ DisputeOrder(p, o)
  \/ RefundBuyer(p, o)
  \/ ReleaseSeller(p, o)
  \/ PartialRefund(p, o)

DisputeOperation(p, o) ==
  \/ RaiseDispute(p, o)
  \/ AssignDispute(p, o)
  \/ ResolveBuyerFavour(p, o)
  \/ ResolveVendorFavour(p, o)
  \/ WithdrawDispute(p, o)

Next ==
  \/ \E o \in Orders : CreateOrder(o)
  \/ \E p \in Requests : Begin(p) \/ Abandon(p)
  \/ \E p \in Requests, o \in Orders :
       \/ OrderOperation(p, o)
       \/ DisputeOperation(p, o)
       \/ AccountOperation(p, o)

Spec == Init /\ [][Next]_vars

-----------------------------------------------------------------------------
(* Whatever stale copies the requests work from, an order that is being     *)
(* fulfilled, and every order with a shipment, has been paid for in full.   *)
NoFulfilmentUnpaid ==
  \A o \in Orders :
    \/ order[o] \in {"PAYMENT_RECEIVED", "PROCESSING", "SHIPPED", "DELIVERED",
                     "COMPLETED", "DISPUTED", "REFUNDED"}
    \/ o \in shipped
    => ledger[o].received = Total

(* An order is COMPLETED or REFUNDED only when its account has given money  *)
(* out, and REFUNDED only when the buyer got all of it: no other request    *)
(* that was under way can take that back.                                   *)
ClosedOrderMovedMoney ==
  \A o \in Orders :
    /\ order[o] = "COMPLETED" => ledger[o].released + ledger[o].refunded > 0
    /\ order[o] = "REFUNDED" => ledger[o].refunded = Total

(* The outcome written on a buyer's dispute is what happened to the money,  *)
(* though two resolutions, a withdrawal and the order's own operations can  *)
(* race for the account.                                                    *)
DisputeOutcomeMatchesMoney ==
  \A o \in Orders :
    /\ dispute[o] \in {"RESOLVED_VENDOR", "WITHDRAWN"} =>
         account[o].state = "RELEASED"
    /\ dispute[o] = "RESOLVED_BUYER" => ledger[o].refunded > 0

(* Once a buyer's dispute exists its account never returns to the states    *)
(* from which auto-confirmation leads on to a release.                      *)
DisputeStopsAutoConfirm ==
  \A o \in Orders :
    dispute[o] # "NONE" =>
      account[o].state \in {"DISPUTED", "PARTIALLY_REFUNDED", "FROZEN",
                            "RELEASED", "REFUNDED"}

-----------------------------------------------------------------------------
(* The promise of Sale, read off the rows.                                  *)

PhaseOf(o) ==
  IF account[o].state = "RELEASED" THEN "vendor paid"
  ELSE IF account[o].state = "REFUNDED"
    THEN IF ledger[o].received > 0 THEN "buyer refunded" ELSE "void"
  ELSE IF ledger[o].received = 0 THEN "new"
  ELSE IF account[o].state \in {"HELD", "IN_TRANSIT", "DELIVERED"}
    THEN "on course" ELSE "stopped"

S == INSTANCE Sale WITH
  phase     <- [o \in Orders |-> PhaseOf(o)],
  sent      <- shipped,
  contested <- {o \in Orders : dispute[o] # "NONE"}

(* The marketplace implements Sale, whatever stale copies its requests work *)
(* from and however order, dispute and account are written past each other. *)
SaleSpec == S!Spec
=============================================================================
