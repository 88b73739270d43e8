----------------------------- MODULE Inventory ------------------------------
(***************************************************************************)
(* Stock and the orders that reserve it: InventoryRecord with               *)
(* ProductService.reserve_stock and release_stock, called line by line from *)
(* OrderService.create_order and cancel_order.                              *)
(*                                                                          *)
(* A request reads its order without a lock and decides on that copy.  Its  *)
(* transaction then takes row locks one at a time: those of the stock       *)
(* records in the order of the request's lines (create) or of the products' *)
(* names (cancel), and a cancellation first that of the order.  A request   *)
(* whose transaction has locked a row keeps it until it ends; its writes    *)
(* are seen by others when it commits, which is when the model makes them.  *)
(*                                                                          *)
(* deduct_stock has no caller, and no refund releases stock: what a         *)
(* fulfilled or refunded order reserved stays held.                         *)
(***************************************************************************)
EXTENDS Integers, FiniteSets

CONSTANTS
  Products,     \* the products of one seller
  Orders,       \* identifiers of orders, each created at most once
  Submitted,    \* bound: the orders that are taken further than DRAFT
  Requests,     \* concurrent requests
  NoRequest,    \* the slot is free
  Qty,          \* Qty[o][p]: units of p on the lines of order o
  LineRank,     \* LineRank[o][p]: where p stands in the request for order o
  NameRank,     \* NameRank[p]: where p stands in OrderLine's ordering
  InitialStock  \* initial_quantity

(* What is expected of the constants.                                       *)
Given ==
  /\ Submitted \subseteq Orders
  /\ Qty \in [Orders -> [Products -> Nat]]
  /\ LineRank \in [Orders -> [Products -> Nat]]
  /\ NameRank \in [Products -> Nat]
  /\ InitialStock \in [Products -> Nat]
  /\ IsFiniteSet(Orders) /\ IsFiniteSet(Products)

ASSUME InventoryAssumption == Given

VARIABLES
  stock,    \* InventoryRecord: available and held
  order,    \* Order.status, up to the shipment
  account,  \* EscrowAccount.state, as far as these operations change it
  request   \* per slot: the operation, its order, is the order's row locked,
            \* and the stock records it has locked and checked

vars == <<stock, order, account, request>>

Lines(o) == {p \in Products : Qty[o][p] > 0}

(* The operations that move an order on: from, to, and what they need of    *)
(* the account and make of it (see Marketplace and Escrow).                 *)
Operation ==
  [ submit          |-> [from |-> "DRAFT",            to |-> "PENDING_PAYMENT",
                         needs |-> "NONE",            makes |-> "PENDING"],
    confirm_payment |-> [from |-> "PENDING_PAYMENT",  to |-> "PAYMENT_RECEIVED",
                         needs |-> "PENDING",         makes |-> "HELD"],
    acknowledge     |-> [from |-> "PAYMENT_RECEIVED", to |-> "PROCESSING",
                         needs |-> "any",             makes |-> "any"],
    ship            |-> [from |-> "PROCESSING",       to |-> "SHIPPED",
                         needs |-> "HELD",            makes |-> "IN_TRANSIT"] ]

OrderStatus == {"NONE", "CANCELLED"}
               \cup {Operation[op].from : op \in DOMAIN Operation}
               \cup {Operation[op].to : op \in DOMAIN Operation}

(* CANCELLABLE_BY_BUYER, and what staff may cancel according to             *)
(* ORDER_TRANSITIONS.                                                       *)
Cancellable == {"DRAFT", "PENDING_PAYMENT", "PAYMENT_RECEIVED", "PROCESSING"}

TypeOK ==
  /\ stock \in [Products -> [available : Nat, held : Nat]]
  /\ order \in [Orders -> OrderStatus]
  /\ account \in [Orders -> {"NONE", "PENDING", "HELD", "IN_TRANSIT"}]
  /\ request \in [Requests ->
       [op : {"create", "cancel"} \cup DOMAIN Operation, order : Orders,
        row : BOOLEAN, locked : SUBSET Products] \cup {NoRequest}]

Init ==
  /\ stock = [p \in Products |-> [available |-> InitialStock[p], held |-> 0]]
  /\ order = [o \in Orders |-> "NONE"]
  /\ account = [o \in Orders |-> "NONE"]
  /\ request = [r \in Requests |-> NoRequest]

-----------------------------------------------------------------------------
(* Row locks.                                                               *)

Runs(r, op) == request[r] # NoRequest /\ request[r].op = op

StockLockedBy(r) == IF request[r] = NoRequest THEN {} ELSE request[r].locked

OrderLockedBy(r) ==
  IF request[r] # NoRequest /\ request[r].row THEN {request[r].order} ELSE {}

StockIsFree(p) == \A r \in Requests : p \notin StockLockedBy(r)
OrderIsFree(o) == \A r \in Requests : o \notin OrderLockedBy(r)

(* The lines that a request has not come to yet, and the first of them.     *)
Remaining(r) == Lines(request[r].order) \ request[r].locked

Rank(r) ==
  IF request[r].op = "create" THEN LineRank[request[r].order] ELSE NameRank

NextLine(r, p) ==
  /\ p \in Remaining(r)
  /\ \A q \in Remaining(r) : Rank(r)[p] <= Rank(r)[q]

InStockLoop(r) ==
  Runs(r, "create") \/ (Runs(r, "cancel") /\ request[r].row)

(* r waits for a row that s has locked.                                     *)
WaitsFor(r, s) ==
  /\ request[r] # NoRequest
  /\ r # s
  /\ IF InStockLoop(r) THEN \E p \in StockLockedBy(s) : NextLine(r, p)
                       ELSE request[r].order \in OrderLockedBy(s)

Deadlocked(r) ==
  \E S \in SUBSET Requests :
    r \in S /\ \A a \in S : \E b \in S : WaitsFor(a, b)

-----------------------------------------------------------------------------
(* Reading the order and deciding on the copy.                              *)

Open(r, op, o) ==
  /\ request[r] = NoRequest
  /\ request' = [request EXCEPT ![r] =
       [op |-> op, order |-> o, row |-> FALSE, locked |-> {}]]
  /\ UNCHANGED <<stock, order, account>>

BeginCreate(r, o) ==
  /\ order[o] = "NONE"
  /\ \A s \in Requests : Runs(s, "create") => request[s].order # o
  /\ Open(r, "create", o)

BeginCancel(r, o) ==
  /\ order[o] \in Cancellable
  /\ Open(r, "cancel", o)

BeginOperation(r, op, o) ==
  /\ o \in Submitted
  /\ order[o] = Operation[op].from
  /\ Open(r, op, o)

-----------------------------------------------------------------------------
(* The transactions.                                                        *)

End(r) == request' = [request EXCEPT ![r] = NoRequest]

Lock(r, p) == request' = [request EXCEPT ![r].locked = @ \cup {p}]

(* The transaction is rolled back; nothing of it is left.                   *)
Rollback(r) ==
  /\ End(r)
  /\ UNCHANGED <<stock, order, account>>

(* Variant: two orders read one quantity and both take it.                  *)
ReserveUnlocked(r, p) ==
  /\ Runs(r, "create")
  /\ NextLine(r, p)
  /\ stock[p].available >= Qty[request[r].order][p]
  /\ Lock(r, p)
  /\ UNCHANGED <<stock, order, account>>

(* reserve_stock: select_for_update, then the check.  For a product that is *)
(* not tracked or may be backordered the check is left out, and the         *)
(* database refuses a negative PositiveIntegerField instead.                *)
Reserve(r, p) ==
  /\ Runs(r, "create")
  /\ NextLine(r, p)
  /\ StockIsFree(p)
  /\ stock[p].available >= Qty[request[r].order][p]
  /\ Lock(r, p)
  /\ UNCHANGED <<stock, order, account>>

ReserveRefused(r, p) ==
  /\ Runs(r, "create")
  /\ NextLine(r, p)
  /\ StockIsFree(p)
  /\ stock[p].available < Qty[request[r].order][p]
  /\ Rollback(r)

CommitCreate(r) ==
  LET o == request[r].order
  IN /\ Runs(r, "create")
     /\ Remaining(r) = {}
     /\ stock' = [p \in Products |->
          [available |-> stock[p].available - Qty[o][p],
           held      |-> stock[p].held + Qty[o][p]]]
     /\ order' = [order EXCEPT ![o] = "DRAFT"]
     /\ End(r)
     /\ UNCHANGED account

(* cancel_order saves the order first: the row is locked from here on.      *)
SaveCancelled(r) ==
  /\ Runs(r, "cancel")
  /\ ~request[r].row
  /\ OrderIsFree(request[r].order)
  /\ request' = [request EXCEPT ![r].row = TRUE]
  /\ UNCHANGED <<stock, order, account>>

(* release_stock                                                            *)
Release(r, p) ==
  /\ Runs(r, "cancel") /\ request[r].row
  /\ NextLine(r, p)
  /\ StockIsFree(p)
  /\ stock[p].held >= Qty[request[r].order][p]
  /\ Lock(r, p)
  /\ UNCHANGED <<stock, order, account>>

(* InsufficientStockError is none of the exceptions cancel_order catches.   *)
ReleaseRefused(r, p) ==
  /\ Runs(r, "cancel") /\ request[r].row
  /\ NextLine(r, p)
  /\ StockIsFree(p)
  /\ stock[p].held < Qty[request[r].order][p]
  /\ Rollback(r)

(* Variant: the order is closed and one line's units are not returned.      *)
CommitCancelShort(r) ==
  LET o == request[r].order
      skipped == IF Lines(o) = {} THEN {} ELSE {CHOOSE p \in Lines(o) : TRUE}
  IN /\ Runs(r, "cancel") /\ request[r].row
     /\ Remaining(r) = {}
     /\ stock' = [p \in Products |->
          IF p \in skipped THEN stock[p] ELSE
            [available |-> stock[p].available + Qty[o][p],
             held      |-> stock[p].held - Qty[o][p]]]
     /\ order' = [order EXCEPT ![o] = "CANCELLED"]
     /\ End(r)
     /\ UNCHANGED account

CommitCancel(r) ==
  LET o == request[r].order
  IN /\ Runs(r, "cancel") /\ request[r].row
     /\ Remaining(r) = {}
     /\ stock' = [p \in Products |->
          [available |-> stock[p].available + Qty[o][p],
           held      |-> stock[p].held - Qty[o][p]]]
     /\ order' = [order EXCEPT ![o] = "CANCELLED"]
     /\ End(r)
     /\ UNCHANGED account

(* submit_order, confirm_payment, acknowledge_order and ship_order write    *)
(* the status over whatever it has become; the escrow service refuses an    *)
(* account that is not where it must be.                                    *)
CommitOperation(r) ==
  LET o  == request[r].order
      op == Operation[request[r].op]
  IN /\ request[r] # NoRequest
     /\ request[r].op \in DOMAIN Operation
     /\ OrderIsFree(o)
     /\ op.needs \in {"any", account[o]}
     /\ order' = [order EXCEPT ![o] = op.to]
     /\ account' = IF op.makes = "any" THEN account
                   ELSE [account EXCEPT ![o] = op.makes]
     /\ End(r)
     /\ UNCHANGED stock

OperationRefused(r) ==
  /\ request[r] # NoRequest
  /\ request[r].op \in DOMAIN Operation
  /\ Operation[request[r].op].needs \notin {"any", account[request[r].order]}
  /\ Rollback(r)

(* Variant: nobody notices a deadlock.                                      *)
NeverDetected(r) == FALSE /\ Rollback(r)

(* The database ends a deadlock by rolling one of the transactions back.    *)
DeadlockVictim(r) ==
  /\ Deadlocked(r)
  /\ Rollback(r)

Step(r) ==
  \/ \E p \in Products : Reserve(r, p)
  \/ \E p \in Products : ReserveRefused(r, p)
  \/ CommitCreate(r)
  \/ SaveCancelled(r)
  \/ \E p \in Products : Release(r, p)
  \/ \E p \in Products : ReleaseRefused(r, p)
  \/ CommitCancel(r)
  \/ CommitOperation(r)
  \/ OperationRefused(r)
  \/ DeadlockVictim(r)

Next ==
  \E r \in Requests :
    \/ \E o \in Orders :
         \/ BeginCreate(r, o)
         \/ BeginCancel(r, o)
         \/ \E op \in DOMAIN Operation : BeginOperation(r, op, o)
    \/ Step(r)

(* Requests go on, and the database hands a row lock to whoever waits for   *)
(* it before the next comer can overtake it for ever.                       *)
Spec ==
  /\ Init /\ [][Next]_vars
  /\ \A r \in Requests : SF_vars(Step(r))

-----------------------------------------------------------------------------
Active == {o \in Orders : order[o] \notin {"NONE", "CANCELLED"}}

(* The units of p that the orders in S are made of, one by one.             *)
Units(S, p) == UNION {{o} \X (1..Qty[o][p]) : o \in S}

(* A cancelled order, and one whose creation failed half way, keep no units *)
(* reserved, whatever stale request writes the order's status afterwards.   *)
NothingLeftReserved ==
  \A p \in Products : stock[p].held <= Cardinality(Units(Active, p))

(* The same with row locks and copies forgotten: an order has taken stock   *)
(* from its commit on, whatever its status says later.                      *)
Pool == INSTANCE Stock WITH
  available <- [p \in Products |-> stock[p].available],
  held      <- [p \in Products |-> stock[p].held],
  placed    <- {o \in Orders : order[o] # "NONE"}

(* Row by row, with locks in different orders, refusals half way, deadlock  *)
(* victims and stale cancellations, create_order and cancel_order still     *)
(* move the units of whole orders: all lines or none.                       *)
OrdersMoveWhole == Pool!Spec

(* Two orders over the same products in opposite order, or an order and a   *)
(* cancellation, do not block each other for ever.                          *)
RequestsEnd ==
  \A r \in Requests : request[r] # NoRequest ~> request[r] = NoRequest

-----------------------------------------------------------------------------
(* Why a commit never takes a quantity below zero: what a request found in  *)
(* the rows that it has locked is there until it commits, since nobody else *)
(* has locked them; and an order that is being created is no one else's.    *)
Holds(r) ==
  /\ IF Runs(r, "create")
     THEN order[request[r].order] = "NONE"
     ELSE order[request[r].order] # "NONE"
  /\ request[r].op \in DOMAIN Operation => request[r].locked = {}
  /\ \A p \in request[r].locked :
       Qty[request[r].order][p] <=
         IF Runs(r, "create") THEN stock[p].available ELSE stock[p].held

(* Two requests lock no row together and create no order together.          *)
Apart(r, s) ==
  /\ StockLockedBy(r) \cap StockLockedBy(s) = {}
  /\ Runs(r, "create") /\ Runs(s, "create") =>
       request[r].order # request[s].order

StockSound(p) ==
  /\ stock[p].available + stock[p].held = InitialStock[p]
  /\ stock[p].held <= Cardinality(Units(Active, p))

(* The inductive invariant.                                                 *)
IInv ==
  /\ TypeOK
  /\ \A r \in Requests : request[r] # NoRequest => Holds(r)
  /\ \A r, s \in Requests : r # s => Apart(r, s)
  /\ \A p \in Products : StockSound(p)
=============================================================================
