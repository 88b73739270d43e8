--------------------------- MODULE CountingProofs ---------------------------
(***************************************************************************)
(* Proofs that count: the units of a product and the orders they are        *)
(* reserved for (Inventory), the rows of a notification and the messages    *)
(* and workers that may still write one (Notifications), for any products,  *)
(* quantities, orders and requests, tasks, retries and workers lost.  Then  *)
(* that Inventory implements Stock, and that no request and no task is      *)
(* forgotten.                                                               *)
(***************************************************************************)
EXTENDS Inventory, Notifications, FiniteSetTheorems, TLAPS

(* Counting units.                                                          *)

LEMMA UnitsFinite ==
  ASSUME Given, NEW p \in Products, NEW S \in SUBSET Orders
  PROVE  IsFiniteSet(Units(S, p)) /\ Cardinality(Units(S, p)) \in Nat
<1> DEFINE unitsOf == [o \in S |-> {o} \X (1..Qty[o][p])]
           T == {{o} \X (1..Qty[o][p]) : o \in S}
<1>1. IsFiniteSet(S)
  BY FS_Subset DEF Given
<1>2. unitsOf \in Surjection(S, T)
  BY DEF Surjection
<1>3. IsFiniteSet(T)
  BY <1>1, <1>2, FS_Surjection
<1>4. ASSUME NEW o \in S PROVE IsFiniteSet({o} \X (1..Qty[o][p]))
  <2>1. PICK qty \in Nat : qty = Qty[o][p]
    BY DEF Given
  <2>2. IsFiniteSet({o})
    BY FS_Singleton
  <2>3. IsFiniteSet(1..qty)
    BY FS_Interval
  <2>4. IsFiniteSet({o} \X (1..qty))
    BY <2>2, <2>3, FS_Product, Zenon
  <2> QED
    BY <2>1, <2>4
<1>5. \A units \in T : IsFiniteSet(units)
  BY <1>4
<1>6. IsFiniteSet(UNION T)
  BY <1>3, <1>5, FS_UNION
<1> QED
  BY <1>6, FS_CardinalityType DEF Units

LEMMA FewerUnits ==
  ASSUME Given, NEW p \in Products, NEW T \in SUBSET Orders, NEW S \in SUBSET T
  PROVE  Cardinality(Units(S, p)) <= Cardinality(Units(T, p))
<1>1. Units(S, p) \subseteq Units(T, p)
  BY DEF Units
<1> QED
  BY <1>1, UnitsFinite, FS_Subset

(* One more order has as many units as stand on its lines.                  *)
LEMMA MoreUnits ==
  ASSUME Given, NEW p \in Products, NEW S \in SUBSET Orders, NEW o \in Orders \ S,
         NEW qty \in Nat, Qty[o][p] = qty
  PROVE  Cardinality(Units(S \cup {o}, p)) = Cardinality(Units(S, p)) + qty
<1> DEFINE units == {o} \X (1..qty)
<1>1. Units(S \cup {o}, p) = Units(S, p) \cup units
  BY DEF Units
<1>2. Units(S, p) \cap units = {}
  BY DEF Units
<1>3. IsFiniteSet(units) /\ Cardinality(units) = qty
  <2>1. IsFiniteSet({o}) /\ Cardinality({o}) = 1
    BY FS_Singleton
  <2>2. IsFiniteSet(1..qty) /\ Cardinality(1..qty) = qty
    BY FS_Interval
  <2>3. /\ IsFiniteSet(units)
        /\ Cardinality(units) = Cardinality({o}) * Cardinality(1..qty)
    BY <2>1, <2>2, FS_Product, Zenon
  <2>4. Cardinality(units) = 1 * qty
    BY <2>1, <2>2, <2>3
  <2> HIDE DEF units
  <2> QED
    BY <2>3, <2>4
<1> HIDE DEF units
<1>4. /\ IsFiniteSet(Units(S, p))
      /\ Cardinality(Units(S, p)) \in Nat
      /\ Cardinality({}) = 0
  BY UnitsFinite, FS_EmptySet
<1>5. Cardinality(Units(S, p) \cup units)
        = Cardinality(Units(S, p)) + Cardinality(units)
            - Cardinality(Units(S, p) \cap units)
  BY <1>3, <1>4, FS_Union
<1>6. Cardinality(Units(S, p) \cap units) = 0
  BY <1>2, <1>4, Zenon
<1>7. Cardinality(Units(S, p) \cup units) = Cardinality(Units(S, p)) + qty
  BY <1>3, <1>4, <1>5, <1>6
<1> QED
  BY <1>1, <1>7

-----------------------------------------------------------------------------
LEMMA Types ==
  ASSUME Given, IInv
  PROVE  /\ \A r \in Requests : request[r] # NoRequest =>
              /\ request[r].order \in Orders
              /\ request[r].op \in {"create", "cancel"} \cup DOMAIN Operation
              /\ request[r].row \in BOOLEAN
              /\ request[r].locked \subseteq Products
         /\ \A p \in Products :
              stock[p].available \in Nat /\ stock[p].held \in Nat
         /\ \A o \in Orders : order[o] \in OrderStatus
         /\ \A o \in Orders, p \in Products : Qty[o][p] \in Nat
         /\ Active \subseteq Orders
         /\ {"create", "cancel"} \cap DOMAIN Operation = {}
BY DEF Given, IInv, TypeOK, Active, Operation

(* A request ends without a trace, or goes on without touching a row.       *)
LEMMA RequestsOnly ==
  ASSUME Given, IInv, UNCHANGED <<stock, order, account>>, NEW r \in Requests,
         request' = [request EXCEPT ![r] = request'[r]],
         request'[r] = NoRequest \/
           /\ request'[r] \in
                [op : {"create", "cancel"} \cup DOMAIN Operation, order : Orders,
                 row : BOOLEAN, locked : SUBSET Products]
           /\ Holds(r)'
           /\ \A s \in Requests \ {r} : Apart(r, s)'
  PROVE  IInv'
<1>1. \A s \in Requests \ {r} : request'[s] = request[s]
  BY DEF IInv, TypeOK
<1>2. TypeOK'
  BY DEF IInv, TypeOK
<1>3. ASSUME NEW s \in Requests, request'[s] # NoRequest PROVE Holds(s)'
  BY <1>1, <1>3 DEF IInv, Holds, Runs
<1>4. ASSUME NEW a \in Requests, NEW b \in Requests, a # b PROVE Apart(a, b)'
  BY <1>1, <1>4 DEF IInv, Apart, Runs, StockLockedBy
<1>5. \A p \in Products : StockSound(p)'
  BY DEF IInv, StockSound, Active
<1> QED
  BY <1>2, <1>3, <1>4, <1>5 DEF IInv

(* A commit with r's order and the rows that r has locked.                  *)
LEMMA LinesLocked ==
  ASSUME Given, IInv, NEW r \in Requests, request[r] # NoRequest, Remaining(r) = {}
  PROVE  /\ \A p \in Products :
              Qty[request[r].order][p] > 0 => p \in request[r].locked
         /\ \A p \in Products :
              Qty[request[r].order][p] <=
                IF Runs(r, "create") THEN stock[p].available ELSE stock[p].held
         /\ \A s \in Requests \ {r}, p \in Products :
              request[s] # NoRequest /\ p \in request[s].locked =>
                Qty[request[r].order][p] = 0
<1>1. \A p \in Products :
        Qty[request[r].order][p] > 0 => p \in request[r].locked
  BY DEF Remaining, Lines
<1>2. ASSUME NEW p \in Products
      PROVE  Qty[request[r].order][p] <=
               IF Runs(r, "create") THEN stock[p].available ELSE stock[p].held
  <2>1. CASE p \in request[r].locked
    BY <2>1 DEF IInv, Holds
  <2>2. CASE p \notin request[r].locked
    <3>1. Qty[request[r].order][p] \in Nat /\ ~(Qty[request[r].order][p] > 0)
      BY <1>1, <2>2, Types
    <3>2. stock[p].available \in Nat /\ stock[p].held \in Nat
      BY Types
    <3> QED
      BY <3>1, <3>2
  <2> QED
    BY <2>1, <2>2
<1>3. ASSUME NEW s \in Requests \ {r}, NEW p \in Products,
             request[s] # NoRequest, p \in request[s].locked
      PROVE  Qty[request[r].order][p] = 0
  <2>1. p \notin request[r].locked
    BY <1>3 DEF IInv, Apart, StockLockedBy
  <2> QED
    BY <1>1, <2>1, Types
<1> QED
  BY <1>1, <1>2, <1>3

(* Stock moves for the rows that r has locked, and r's order is written.    *)
LEMMA CommitKeeps ==
  ASSUME Given, IInv, NEW r \in Requests, request[r] # NoRequest, Remaining(r) = {},
         NEW to \in OrderStatus \ {"NONE"},
         order' = [order EXCEPT ![request[r].order] = to],
         account' = account, End(r),
         stock' \in [Products -> [available : Nat, held : Nat]],
         \A p \in Products : Qty[request[r].order][p] = 0 => stock'[p] = stock[p],
         \A p \in Products : StockSound(p)'
  PROVE  IInv'
<1>1. /\ request'[r] = NoRequest
      /\ \A s \in Requests \ {r} : request'[s] = request[s]
  BY DEF IInv, TypeOK, End
<1>2. TypeOK'
  BY DEF IInv, TypeOK, End
<1>3. ASSUME NEW s \in Requests, request'[s] # NoRequest PROVE Holds(s)'
  <2>1. s # r /\ request'[s] = request[s] /\ request[s] # NoRequest /\ Holds(s)
    BY <1>1, <1>3 DEF IInv
  <2>2. Runs(s, "create")' <=> Runs(s, "create")
    BY <2>1 DEF Runs
  <2>3. ASSUME NEW p \in request[s].locked PROVE stock'[p] = stock[p]
    BY <2>1, LinesLocked, Types
  <2>4. request[s].order \in Orders /\ request[r].order \in Orders
    BY <2>1, Types
  <2>5. Runs(s, "create") => request[r].order # request[s].order
    <3>1. Runs(s, "create") /\ request[r].order = request[s].order =>
            ~Runs(r, "create")
      BY <2>1 DEF IInv, Apart
    <3>2. Runs(s, "create") => order[request[s].order] = "NONE"
      BY <2>1 DEF Holds
    <3>3. ~Runs(r, "create") => order[request[r].order] # "NONE"
      BY DEF IInv, Holds
    <3> QED
      BY <3>1, <3>2, <3>3
  <2>6. IF Runs(s, "create") THEN order'[request[s].order] = "NONE"
                             ELSE order'[request[s].order] # "NONE"
    BY <2>1, <2>4, <2>5 DEF IInv, TypeOK, Holds
  <2> QED
    BY <2>1, <2>2, <2>3, <2>6 DEF Holds
<1>4. ASSUME NEW a \in Requests, NEW b \in Requests, a # b PROVE Apart(a, b)'
  BY <1>1, <1>4 DEF IInv, Apart, Runs, StockLockedBy
<1> QED
  BY <1>2, <1>3, <1>4 DEF IInv

LEMMA CreateKeeps ==
  ASSUME Given, IInv, NEW r \in Requests, CommitCreate(r)
  PROVE  IInv'
<1> DEFINE o == request[r].order
<1>1. /\ Runs(r, "create") /\ request[r] # NoRequest /\ Remaining(r) = {}
      /\ order' = [order EXCEPT ![o] = "DRAFT"] /\ account' = account
      /\ End(r)
      /\ stock' = [p \in Products |->
           [available |-> stock[p].available - Qty[o][p],
            held      |-> stock[p].held + Qty[o][p]]]
  BY DEF CommitCreate, Runs
<1>2. o \in Orders /\ order[o] = "NONE"
  BY <1>1, Types DEF IInv, Holds
<1>3. ASSUME NEW p \in Products
      PROVE  /\ stock'[p] \in [available : Nat, held : Nat]
             /\ Qty[o][p] = 0 => stock'[p] = stock[p]
             /\ StockSound(p)'
  <2>1. PICK qty \in Nat : qty = Qty[o][p]
    BY <1>2, Types
  <2>2. PICK available \in Nat, held \in Nat :
          stock[p] = [available |-> available, held |-> held]
    BY DEF IInv, TypeOK
  <2>3. qty <= available
    BY <1>1, <2>1, <2>2, LinesLocked
  <2>4. stock'[p] = [available |-> available - qty, held |-> held + qty]
    BY <1>1, <2>1, <2>2
  <2>5. /\ available + held = InitialStock[p]
        /\ held <= Cardinality(Units(Active, p))
    BY <2>2 DEF IInv, StockSound
  <2>6. o \notin Active /\ Active' = Active \cup {o} /\ Active \subseteq Orders
    BY <1>1, <1>2 DEF IInv, TypeOK, Active
  <2>7. Cardinality(Units(Active \cup {o}, p))
          = Cardinality(Units(Active, p)) + qty
    BY <1>2, <2>1, <2>6, MoreUnits
  <2>8. Cardinality(Units(Active, p)) \in Nat
    BY <2>6, UnitsFinite
  <2>9. held + qty <= Cardinality(Units(Active', p))
    BY <2>5, <2>6, <2>7, <2>8
  <2> QED
    BY <2>1, <2>2, <2>3, <2>4, <2>5, <2>9 DEF StockSound
<1>4. stock' \in [Products -> [available : Nat, held : Nat]]
  BY <1>1, <1>3
<1>5. "DRAFT" \in OrderStatus \ {"NONE"}
  BY DEF OrderStatus, Operation
<1> QED
  BY <1>1, <1>3, <1>4, <1>5, CommitKeeps

LEMMA CancelKeeps ==
  ASSUME Given, IInv, NEW r \in Requests, CommitCancel(r)
  PROVE  IInv'
<1> DEFINE o == request[r].order
<1>1. /\ Runs(r, "cancel") /\ request[r] # NoRequest /\ Remaining(r) = {}
      /\ order' = [order EXCEPT ![o] = "CANCELLED"] /\ account' = account
      /\ End(r)
      /\ stock' = [p \in Products |->
           [available |-> stock[p].available + Qty[o][p],
            held      |-> stock[p].held - Qty[o][p]]]
  BY DEF CommitCancel, Runs
<1>2. o \in Orders /\ ~Runs(r, "create")
  BY <1>1, Types DEF Runs
<1>3. ASSUME NEW p \in Products
      PROVE  /\ stock'[p] \in [available : Nat, held : Nat]
             /\ Qty[o][p] = 0 => stock'[p] = stock[p]
             /\ StockSound(p)'
  <2>1. PICK qty \in Nat : qty = Qty[o][p]
    BY <1>2, Types
  <2>2. PICK available \in Nat, held \in Nat :
          stock[p] = [available |-> available, held |-> held]
    BY DEF IInv, TypeOK
  <2>3. qty <= held
    BY <1>1, <1>2, <2>1, <2>2, LinesLocked
  <2>4. stock'[p] = [available |-> available + qty, held |-> held - qty]
    BY <1>1, <2>1, <2>2
  <2>5. /\ available + held = InitialStock[p]
        /\ held <= Cardinality(Units(Active, p))
    BY <2>2 DEF IInv, StockSound
  <2>6. Active' = Active \ {o} /\ Active \subseteq Orders
    BY <1>1, <1>2 DEF IInv, TypeOK, Active
  <2>7. Active \ {o} \in SUBSET Orders
    BY <2>6
  <2>8. Cardinality(Units((Active \ {o}) \cup {o}, p))
          = Cardinality(Units(Active \ {o}, p)) + qty
    BY <1>2, <2>1, <2>7, MoreUnits
  <2>9. Cardinality(Units(Active, p)) <= Cardinality(Units((Active \ {o}) \cup {o}, p))
    BY <1>2, <2>6, FewerUnits
  <2>10. /\ Cardinality(Units(Active, p)) \in Nat
         /\ Cardinality(Units(Active \ {o}, p)) \in Nat
    BY <2>6, <2>7, UnitsFinite
  <2>11. held - qty <= Cardinality(Units(Active', p))
    BY <2>5, <2>6, <2>8, <2>9, <2>10
  <2> QED
    BY <2>1, <2>2, <2>3, <2>4, <2>5, <2>11 DEF StockSound
<1>4. stock' \in [Products -> [available : Nat, held : Nat]]
  BY <1>1, <1>3
<1>5. "CANCELLED" \in OrderStatus \ {"NONE"}
  BY DEF OrderStatus, Operation
<1> QED
  BY <1>1, <1>3, <1>4, <1>5, CommitKeeps

(* submit, confirm_payment, acknowledge, ship: also on an order that was    *)
(* cancelled meanwhile, which then counts among the active ones again.      *)
LEMMA OperationKeeps ==
  ASSUME Given, IInv, NEW r \in Requests, CommitOperation(r)
  PROVE  IInv'
<1> DEFINE o == request[r].order
           op == Operation[request[r].op]
<1>1. /\ request[r] # NoRequest /\ request[r].op \in DOMAIN Operation
      /\ order' = [order EXCEPT ![o] = op.to]
      /\ account' = (IF op.makes = "any" THEN account
                     ELSE [account EXCEPT ![o] = op.makes])
      /\ End(r) /\ stock' = stock
  BY DEF CommitOperation
<1>2. /\ o \in Orders /\ op.to \in OrderStatus \ {"NONE", "CANCELLED"}
      /\ op.makes \in {"any", "PENDING", "HELD", "IN_TRANSIT"}
  BY <1>1, Types DEF Operation, OrderStatus
<1>3. /\ order[o] # "NONE" /\ ~Runs(r, "create")
  BY <1>1, Types DEF IInv, Holds, Runs
<1>4. /\ request'[r] = NoRequest
      /\ \A s \in Requests \ {r} : request'[s] = request[s]
  BY <1>1 DEF IInv, TypeOK, End
<1>5. TypeOK'
  <2>1. order' \in [Orders -> OrderStatus]
    BY <1>1, <1>2 DEF IInv, TypeOK
  <2>2. account' \in [Orders -> {"NONE", "PENDING", "HELD", "IN_TRANSIT"}]
    BY <1>1, <1>2 DEF IInv, TypeOK
  <2> QED
    BY <1>1, <2>1, <2>2 DEF IInv, TypeOK, End
<1>6. ASSUME NEW s \in Requests, request'[s] # NoRequest PROVE Holds(s)'
  <2>1. s # r /\ request'[s] = request[s] /\ request[s] # NoRequest /\ Holds(s)
    BY <1>4, <1>6 DEF IInv
  <2>2. Runs(s, "create")' <=> Runs(s, "create")
    BY <2>1 DEF Runs
  <2>3. request[s].order \in Orders
    BY <2>1, Types
  <2>4. IF Runs(s, "create") THEN order'[request[s].order] = "NONE"
                             ELSE order'[request[s].order] # "NONE"
    BY <1>1, <1>2, <1>3, <2>1, <2>3 DEF IInv, TypeOK, Holds
  <2> QED
    BY <1>1, <2>1, <2>2, <2>4 DEF Holds
<1>7. ASSUME NEW a \in Requests, NEW b \in Requests, a # b PROVE Apart(a, b)'
  BY <1>4, <1>7 DEF IInv, Apart, Runs, StockLockedBy
<1>8. ASSUME NEW p \in Products PROVE StockSound(p)'
  <2>1. Active \in SUBSET Active' /\ Active' \in SUBSET Orders
    BY <1>1, <1>2 DEF IInv, TypeOK, Active
  <2>2. Cardinality(Units(Active, p)) <= Cardinality(Units(Active', p))
    BY <2>1, FewerUnits
  <2>3. /\ Cardinality(Units(Active, p)) \in Nat
        /\ Cardinality(Units(Active', p)) \in Nat
    BY <2>1, Types, UnitsFinite
  <2>4. stock[p].held \in Nat
    BY Types
  <2> QED
    BY <1>1, <2>2, <2>3, <2>4 DEF IInv, StockSound
<1> QED
  BY <1>5, <1>6, <1>7, <1>8 DEF IInv

(* A row is locked, after it was found free, with enough in it.             *)
LEMMA LockKeeps ==
  ASSUME Given, IInv, NEW r \in Requests, NEW p \in Products,
         Reserve(r, p) \/ Release(r, p)
  PROVE  IInv'
<1>1. /\ request[r] # NoRequest /\ UNCHANGED <<stock, order, account>>
      /\ request[r].op \in {"create", "cancel"}
      /\ request' = [request EXCEPT ![r].locked = @ \cup {p}]
      /\ StockIsFree(p)
      /\ Qty[request[r].order][p] <=
           IF Runs(r, "create") THEN stock[p].available ELSE stock[p].held
  <2>1. Qty[request[r].order][p] \in Nat
    BY Types DEF Reserve, Release, Runs
  <2>2. stock[p].available \in Nat /\ stock[p].held \in Nat
    BY Types
  <2> QED
    BY <2>1, <2>2 DEF Reserve, Release, Runs, Lock
<1>2. /\ request[r] \in [op : {"create", "cancel"} \cup DOMAIN Operation,
                         order : Orders, row : BOOLEAN, locked : SUBSET Products]
      /\ Holds(r)
  BY <1>1 DEF IInv, TypeOK
<1>3. /\ request' = [request EXCEPT ![r] = request'[r]]
      /\ request'[r] = [request[r] EXCEPT !.locked = @ \cup {p}]
      /\ \A s \in Requests \ {r} : request'[s] = request[s]
  BY <1>1 DEF IInv, TypeOK
<1>4. /\ request'[r].op = request[r].op /\ request'[r].order = request[r].order
      /\ request'[r].locked = request[r].locked \cup {p}
      /\ request'[r] \in [op : {"create", "cancel"} \cup DOMAIN Operation,
                          order : Orders, row : BOOLEAN,
                          locked : SUBSET Products]
  BY <1>2, <1>3
<1>5. request'[r] # NoRequest => (Runs(r, "create")' <=> Runs(r, "create"))
  BY <1>1, <1>4 DEF Runs
<1>6. {"create", "cancel"} \cap DOMAIN Operation = {}
  BY Types
<1>7. request'[r] # NoRequest => Holds(r)'
  BY <1>1, <1>2, <1>4, <1>5, <1>6 DEF Holds
<1>8. ASSUME NEW s \in Requests \ {r}, request'[r] # NoRequest PROVE Apart(r, s)'
  <2>1. Apart(r, s) /\ p \notin StockLockedBy(s)
    BY <1>1 DEF IInv, StockIsFree
  <2> QED
    BY <1>1, <1>3, <1>4, <1>5, <1>8, <2>1 DEF Apart, StockLockedBy, Runs
<1> QED
  BY <1>1, <1>3, <1>4, <1>7, <1>8, RequestsOnly

(* A cancellation locks its order's row.                                    *)
LEMMA SaveKeeps ==
  ASSUME Given, IInv, NEW r \in Requests, SaveCancelled(r)
  PROVE  IInv'
<1>1. /\ request[r] # NoRequest /\ request[r].op = "cancel"
      /\ UNCHANGED <<stock, order, account>>
      /\ request' = [request EXCEPT ![r].row = TRUE]
  BY DEF SaveCancelled, Runs
<1>2. /\ request[r] \in [op : {"create", "cancel"} \cup DOMAIN Operation,
                         order : Orders, row : BOOLEAN, locked : SUBSET Products]
      /\ Holds(r)
  BY <1>1 DEF IInv, TypeOK
<1>3. /\ request' = [request EXCEPT ![r] = request'[r]]
      /\ request'[r] = [request[r] EXCEPT !.row = TRUE]
      /\ \A s \in Requests \ {r} : request'[s] = request[s]
  BY <1>1 DEF IInv, TypeOK
<1>4. /\ request'[r].op = "cancel" /\ request'[r].order = request[r].order
      /\ request'[r].locked = request[r].locked
      /\ request'[r] \in [op : {"create", "cancel"} \cup DOMAIN Operation,
                          order : Orders, row : BOOLEAN,
                          locked : SUBSET Products]
  <2>1. PICK old : old = request[r]
    OBVIOUS
  <2>2. PICK now : now = [old EXCEPT !.row = TRUE]
    OBVIOUS
  <2>3. /\ now.op = old.op /\ now.order = old.order /\ now.locked = old.locked
        /\ now \in [op : {"create", "cancel"} \cup DOMAIN Operation,
                    order : Orders, row : BOOLEAN, locked : SUBSET Products]
    BY <1>2, <2>1, <2>2
  <2> QED
    BY <1>1, <1>3, <2>1, <2>2, <2>3
<1>5. ~Runs(r, "create")' /\ ~Runs(r, "create")
  BY <1>1, <1>4 DEF Runs
<1>6. {"create", "cancel"} \cap DOMAIN Operation = {}
  BY Types
<1>7. request'[r] # NoRequest => Holds(r)'
  BY <1>1, <1>2, <1>4, <1>5, <1>6 DEF Holds
<1>8. ASSUME NEW s \in Requests \ {r}, request'[r] # NoRequest PROVE Apart(r, s)'
  <2>1. Apart(r, s)
    BY DEF IInv
  <2> QED
    BY <1>1, <1>3, <1>4, <1>5, <1>8, <2>1 DEF Apart, StockLockedBy
<1> QED
  BY <1>1, <1>3, <1>4, <1>7, <1>8, RequestsOnly

(* A request reads its order.                                               *)
LEMMA BeginKeeps ==
  ASSUME Given, IInv, NEW r \in Requests, NEW o \in Orders,
         \/ BeginCreate(r, o) \/ BeginCancel(r, o)
         \/ \E op \in DOMAIN Operation : BeginOperation(r, op, o)
  PROVE  IInv'
<1>1. {"create", "cancel"} \cap DOMAIN Operation = {}
  BY Types
<1>2. PICK op \in {"create", "cancel"} \cup DOMAIN Operation :
        /\ Open(r, op, o)
        /\ IF op = "create" THEN order[o] = "NONE" ELSE order[o] # "NONE"
        /\ op = "create" =>
             \A s \in Requests : Runs(s, "create") => request[s].order # o
  <2>1. CASE BeginCreate(r, o)
    BY <2>1 DEF BeginCreate
  <2>2. CASE BeginCancel(r, o)
    BY <2>2 DEF BeginCancel, Cancellable
  <2>3. ASSUME NEW op \in DOMAIN Operation, BeginOperation(r, op, o)
        PROVE  Open(r, op, o) /\ order[o] # "NONE" /\ op # "create"
    BY <2>3 DEF BeginOperation, Operation
  <2> QED
    BY <2>1, <2>2, <2>3
<1> DEFINE new == [op |-> op, order |-> o, row |-> FALSE, locked |-> {}]
<1>3. /\ request' = [request EXCEPT ![r] = new]
      /\ UNCHANGED <<stock, order, account>>
  BY <1>2 DEF Open
<1>4. request'[r] = new /\ \A s \in Requests \ {r} : request'[s] = request[s]
  BY <1>3 DEF IInv, TypeOK
<1>5. request'[r] # NoRequest => Holds(r)'
  <2>1. request'[r] # NoRequest => (Runs(r, "create")' <=> op = "create")
    BY <1>4 DEF Runs
  <2> QED
    BY <1>2, <1>3, <1>4, <2>1 DEF Holds
<1>6. ASSUME NEW s \in Requests \ {r}, request'[r] # NoRequest PROVE Apart(r, s)'
  <2>1. /\ StockLockedBy(r)' = {} /\ StockLockedBy(s)' = StockLockedBy(s)
        /\ Runs(s, "create")' <=> Runs(s, "create")
        /\ Runs(r, "create")' => op = "create"
    BY <1>4 DEF StockLockedBy, Runs
  <2> QED
    BY <1>2, <1>4, <2>1 DEF Apart
<1>7. new \in [op : {"create", "cancel"} \cup DOMAIN Operation, order : Orders,
               row : BOOLEAN, locked : SUBSET Products]
  OBVIOUS
<1> HIDE DEF new
<1> QED
  BY <1>3, <1>4, <1>5, <1>6, <1>7, RequestsOnly

-----------------------------------------------------------------------------
LEMMA StockInit ==
  ASSUME Given, Init
  PROVE  IInv
<1>1. Active = {}
  BY DEF Init, Active
<1>2. ASSUME NEW p \in Products PROVE StockSound(p)
  <2>1. InitialStock[p] \in Nat
    BY DEF Given
  <2>2. stock[p] = [available |-> InitialStock[p], held |-> 0]
    BY DEF Init
  <2>3. Cardinality(Units(Active, p)) \in Nat
    BY <1>1, UnitsFinite
  <2> QED
    BY <2>1, <2>2, <2>3 DEF StockSound
<1>3. TypeOK
  BY DEF Given, Init, TypeOK, OrderStatus
<1>4. \A r, s \in Requests : Apart(r, s)
  BY DEF Init, Apart, StockLockedBy, Runs
<1> QED
  BY <1>2, <1>3, <1>4 DEF IInv, Init

LEMMA StockNext ==
  ASSUME Given, IInv, [Next]_vars
  PROVE  IInv'
<1>1. CASE UNCHANGED vars
  BY <1>1 DEF vars, IInv, TypeOK, Holds, Apart, StockSound, Runs, StockLockedBy,
              Active
<1>2. ASSUME NEW r \in Requests, Rollback(r) PROVE IInv'
  <2>1. request' = [request EXCEPT ![r] = NoRequest]
        /\ UNCHANGED <<stock, order, account>>
    BY <1>2 DEF Rollback, End
  <2>2. request'[r] = NoRequest
    BY <2>1 DEF IInv, TypeOK
  <2> QED
    BY <2>1, <2>2, RequestsOnly
<1>3. ASSUME NEW r \in Requests, Step(r) PROVE IInv'
  <2>1. \/ \E p \in Products : Reserve(r, p) \/ Release(r, p)
        \/ Rollback(r) \/ CommitCreate(r) \/ SaveCancelled(r)
        \/ CommitCancel(r) \/ CommitOperation(r)
    BY <1>3 DEF Step, ReserveRefused, ReleaseRefused, OperationRefused,
                DeadlockVictim
  <2> QED
    BY <1>2, <2>1, LockKeeps, CreateKeeps, SaveKeeps, CancelKeeps, OperationKeeps
<1> QED
  BY <1>1, <1>3, BeginKeeps DEF Next

(* The inductive invariant, for any products, orders, quantities and        *)
(* requests, in whatever order rows are locked.                             *)
THEOREM StockIsSound == Spec => []IInv
<1>1. Init => IInv
  BY StockInit, InventoryAssumption
<1>2. IInv /\ [Next]_vars => IInv'
  BY StockNext, InventoryAssumption
<1> QED
  BY <1>1, <1>2, PTL DEF Spec

(* Types: neither available nor held ever goes below zero.                  *)
THEOREM StockIsNeverNegative == Spec => []TypeOK
<1>1. IInv => TypeOK
  BY DEF IInv
<1> QED
  BY <1>1, StockIsSound, PTL

(* What is held is on the lines of an order that is neither cancelled nor   *)
(* half created.                                                            *)
THEOREM NothingStaysReserved == Spec => []NothingLeftReserved
<1>1. IInv => NothingLeftReserved
  BY DEF IInv, StockSound, NothingLeftReserved
<1> QED
  BY <1>1, StockIsSound, PTL

(* No unit of a product appears or is lost, whatever is rolled back,        *)
(* cancelled twice or written over.                                         *)
THEOREM UnitsAreConserved ==
  Spec => [](\A p \in Products :
               stock[p].available + stock[p].held = InitialStock[p])
<1>1. IInv => \A p \in Products :
                stock[p].available + stock[p].held = InitialStock[p]
  BY DEF IInv, StockSound
<1> QED
  BY <1>1, StockIsSound, PTL

(* Every commit moves the units of one whole order, and no other step moves *)
(* any: the locks a request has taken line by line guard what it read.      *)
LEMMA StepMovesWhole ==
  IInv /\ [Next]_vars => [Pool!Next]_(Pool!vars)
<1> USE InventoryAssumption
<1> SUFFICES ASSUME IInv, [Next]_vars PROVE [Pool!Next]_(Pool!vars)
  OBVIOUS
<1>1. ASSUME NEW r \in Requests, CommitCreate(r)
      PROVE  \E o \in Orders : Pool!Take(o)
  <2> PICK o \in Orders : o = request[r].order
    BY <1>1, Types DEF CommitCreate, Runs
  <2>1. /\ Runs(r, "create") /\ request[r] # NoRequest /\ Remaining(r) = {}
        /\ order' = [order EXCEPT ![o] = "DRAFT"]
        /\ stock' = [p \in Products |->
             [available |-> stock[p].available - Qty[o][p],
              held      |-> stock[p].held + Qty[o][p]]]
    BY <1>1 DEF CommitCreate, Runs
  <2>2. order[o] = "NONE"
    BY <2>1, Types DEF IInv, Holds
  <2>3. Pool!Fits(o, [p \in Products |-> stock[p].available])
    BY <2>1, LinesLocked DEF Pool!Fits
  <2>4. {x \in Orders : order'[x] # "NONE"}
          = {x \in Orders : order[x] # "NONE"} \cup {o}
    BY <2>1, <2>2 DEF IInv, TypeOK
  <2> QED
    BY <2>1, <2>2, <2>3, <2>4 DEF Pool!Take
<1>2. ASSUME NEW r \in Requests, CommitCancel(r)
      PROVE  \E o \in Orders : Pool!GiveBack(o)
  <2> PICK o \in Orders : o = request[r].order
    BY <1>2, Types DEF CommitCancel, Runs
  <2>1. /\ ~Runs(r, "create") /\ request[r] # NoRequest /\ Remaining(r) = {}
        /\ order' = [order EXCEPT ![o] = "CANCELLED"]
        /\ stock' = [p \in Products |->
             [available |-> stock[p].available + Qty[o][p],
              held      |-> stock[p].held - Qty[o][p]]]
    BY <1>2 DEF CommitCancel, Runs
  <2>2. order[o] # "NONE"
    BY <2>1, Types DEF IInv, Holds
  <2>3. Pool!Fits(o, [p \in Products |-> stock[p].held])
    BY <2>1, LinesLocked DEF Pool!Fits
  <2>4. {x \in Orders : order'[x] # "NONE"} = {x \in Orders : order[x] # "NONE"}
    BY <2>1, <2>2 DEF IInv, TypeOK
  <2> QED
    BY <2>1, <2>2, <2>3, <2>4 DEF Pool!GiveBack
<1>3. ASSUME NEW r \in Requests, CommitOperation(r) PROVE UNCHANGED Pool!vars
  <2> DEFINE o == request[r].order
  <2>1. /\ request[r] # NoRequest /\ request[r].op \in DOMAIN Operation
        /\ order' = [order EXCEPT ![o] = Operation[request[r].op].to]
        /\ stock' = stock
    BY <1>3 DEF CommitOperation
  <2>2. /\ o \in Orders /\ order[o] # "NONE"
        /\ Operation[request[r].op].to # "NONE"
    BY <2>1, Types DEF IInv, Holds, Runs, Operation
  <2>3. {x \in Orders : order'[x] # "NONE"} = {x \in Orders : order[x] # "NONE"}
    BY <2>1, <2>2 DEF IInv, TypeOK
  <2> QED
    BY <2>1, <2>3 DEF Pool!vars
<1>4. CASE UNCHANGED <<stock, order>>
  BY <1>4 DEF Pool!vars
<1>5. \/ UNCHANGED <<stock, order>>
      \/ \E r \in Requests :
           CommitCreate(r) \/ CommitCancel(r) \/ CommitOperation(r)
  BY DEF Next, vars, Step, BeginCreate, BeginCancel, BeginOperation, Open,
         Reserve, ReserveRefused, SaveCancelled, Release, ReleaseRefused,
         OperationRefused, DeadlockVictim, Rollback
<1> QED
  BY <1>1, <1>2, <1>3, <1>4, <1>5 DEF Pool!Next

(* Inventory implements the abstract Stock, for any orders, quantities,     *)
(* requests and locking orders.                                             *)
THEOREM StockMovesWhole == Spec => OrdersMoveWhole
<1>1. Init => Pool!Init
  BY InventoryAssumption DEF Given, Init, Pool!Init
<1> QED
  BY <1>1, StepMovesWhole, StockIsSound, PTL DEF Spec, OrdersMoveWhole, Pool!Spec

-----------------------------------------------------------------------------
(* Nobody waits unnoticed: the safety half of RequestsEnd.                  *)

LEMMA Smallest ==
  ASSUME NEW T \in SUBSET Nat, T # {}
  PROVE  \E m \in T : \A n \in T : m <= n
<1> DEFINE Segments == {0..n : n \in T}
           Finite == FiniteSubsetsOf(Nat)
<1>1. Segments \subseteq Finite /\ Segments # {}
  <2>1. ASSUME NEW n \in T PROVE 0..n \in Finite
    <3>1. n \in Int /\ 0..n \subseteq Nat
      OBVIOUS
    <3> QED
      BY <3>1, FS_Interval DEF FiniteSubsetsOf
  <2>2. PICK n \in T : TRUE
    OBVIOUS
  <2> QED
    BY <2>1, <2>2
<1>2. PICK x \in Segments : \A y \in Segments : <<y, x>> \notin StrictSubsetOrdering(Nat)
  <2> HIDE DEF Segments
  <2> QED
  BY <1>1, FS_StrictSubsetOrderingWellFounded, WFMin
<1>3. PICK m \in T : x = 0..m
  OBVIOUS
<1>4. ASSUME NEW n \in T, n < m PROVE FALSE
  <2>1. 0..n \in Segments /\ 0..n \subseteq 0..m /\ m \in 0..m /\ m \notin 0..n
    BY <1>4
  <2> QED
    BY <1>1, <1>2, <1>3, <2>1 DEF StrictSubsetOrdering, FiniteSubsetsOf
<1> QED
  BY <1>4

(* r has a step that no lock of another request holds up: the line that is  *)
(* next is reserved, released or refused, and after the last one, or for an *)
(* operation without lines, comes the commit.                               *)
Ready(r) ==
  IF InStockLoop(r)
  THEN Remaining(r) = {} \/ \E p \in Products : NextLine(r, p) /\ StockIsFree(p)
  ELSE OrderIsFree(request[r].order)

RowsAreCancelled ==
  \A r \in Requests :
    request[r] # NoRequest /\ request[r].row => request[r].op = "cancel"

NoStandstill ==
  \A q \in Requests : request[q] # NoRequest =>
    \E r \in Requests : request[r] # NoRequest /\ (Ready(r) \/ Deadlocked(r))

LEMMA RowsOnlyByCancel ==
  IInv /\ RowsAreCancelled /\ [Next]_vars => RowsAreCancelled'
<1> SUFFICES ASSUME IInv, RowsAreCancelled, [Next]_vars
             PROVE  RowsAreCancelled'
  OBVIOUS
<1>1. ASSUME NEW r \in Requests, request' = [request EXCEPT ![r] = request'[r]],
             request'[r] # NoRequest /\ request'[r].row =>
               request'[r].op = "cancel"
      PROVE  RowsAreCancelled'
  BY <1>1 DEF IInv, TypeOK, RowsAreCancelled
<1>2. ASSUME NEW r \in Requests, NEW o \in Orders, NEW op, Open(r, op, o)
      PROVE  RowsAreCancelled'
  BY <1>1, <1>2 DEF IInv, TypeOK, Open
<1>3. ASSUME NEW r \in Requests, End(r) PROVE RowsAreCancelled'
  BY <1>1, <1>3 DEF IInv, TypeOK, End
<1>4. ASSUME NEW r \in Requests, NEW p \in Products, Lock(r, p),
             Reserve(r, p) \/ Release(r, p)
      PROVE  RowsAreCancelled'
  BY <1>1, <1>4 DEF IInv, TypeOK, Lock, Reserve, Release, Runs, RowsAreCancelled
<1>5. ASSUME NEW r \in Requests, SaveCancelled(r) PROVE RowsAreCancelled'
  BY <1>1, <1>5 DEF IInv, TypeOK, SaveCancelled, Runs
<1>6. CASE UNCHANGED vars
  BY <1>6 DEF vars, RowsAreCancelled
<1>7. ASSUME NEW r \in Requests, Step(r) PROVE RowsAreCancelled'
  BY <1>3, <1>4, <1>5, <1>7
     DEF Step, Reserve, Release, ReserveRefused, ReleaseRefused, CommitCreate,
         CommitCancel, CommitOperation, OperationRefused, DeadlockVictim,
         Rollback
<1> QED
  BY <1>2, <1>6, <1>7 DEF Next, BeginCreate, BeginCancel, BeginOperation

(* Of the lines that are left, one is the next.                             *)
LEMMA SomeLineIsNext ==
  ASSUME IInv, NEW r \in Requests, request[r] # NoRequest, Remaining(r) # {}
  PROVE  \E p \in Products : NextLine(r, p)
<1> DEFINE Ranks == {Rank(r)[p] : p \in Remaining(r)}
<1>1. /\ Remaining(r) \subseteq Products
      /\ \A p \in Products : Rank(r)[p] \in Nat
  BY InventoryAssumption, Types DEF Given, Remaining, Lines, Rank
<1>2. Ranks \in SUBSET Nat /\ Ranks # {}
  BY <1>1
<1>3. PICK m \in Ranks : \A n \in Ranks : m <= n
  <2> HIDE DEF Ranks
  <2> QED
    BY <1>2, Smallest
<1> QED
  BY <1>1, <1>3 DEF NextLine

(* Who is not ready waits for a request that has locked what it needs.      *)
LEMMA ReadyOrWaiting ==
  ASSUME IInv, RowsAreCancelled, NEW r \in Requests, request[r] # NoRequest,
         ~Ready(r)
  PROVE  \E s \in Requests : request[s] # NoRequest /\ WaitsFor(r, s)
<1>1. CASE InStockLoop(r)
  <2>1. PICK p \in Products : NextLine(r, p)
    BY <1>1, SomeLineIsNext DEF Ready
  <2>2. PICK s \in Requests : p \in StockLockedBy(s)
    BY <1>1, <2>1 DEF Ready, StockIsFree
  <2>3. s # r /\ request[s] # NoRequest
    BY <2>1, <2>2 DEF StockLockedBy, NextLine, Remaining
  <2> QED
    BY <1>1, <2>1, <2>2, <2>3 DEF WaitsFor
<1>2. CASE ~InStockLoop(r)
  <2>1. PICK s \in Requests : request[r].order \in OrderLockedBy(s)
    BY <1>2 DEF Ready, OrderIsFree
  <2>2. s # r /\ request[s] # NoRequest
    BY <1>2, <2>1 DEF OrderLockedBy, InStockLoop, Runs, RowsAreCancelled
  <2> QED
    BY <1>2, <2>1, <2>2 DEF WaitsFor
<1> QED
  BY <1>1, <1>2

(* As long as there is a request, one of them can go on, or is in a         *)
(* deadlock that the database detects: waiting for row locks is the only    *)
(* way to be held up, and requests that all wait for one another are found. *)
THEOREM NobodyWaitsUnnoticed == Spec => []NoStandstill
<1>1. Init => RowsAreCancelled
  BY DEF Init, RowsAreCancelled
<1>2. IInv /\ RowsAreCancelled => NoStandstill
  <2> SUFFICES ASSUME IInv, RowsAreCancelled,
                      NEW q \in Requests, request[q] # NoRequest,
                      \A r \in Requests : request[r] # NoRequest => ~Ready(r)
               PROVE  Deadlocked(q)
    BY DEF NoStandstill
  <2> DEFINE S == {r \in Requests : request[r] # NoRequest}
  <2>1. q \in S /\ S \in SUBSET Requests
    OBVIOUS
  <2>2. \A a \in S : \E b \in S : WaitsFor(a, b)
    BY ReadyOrWaiting
  <2> QED
    BY <2>1, <2>2 DEF Deadlocked
<1> QED
  BY <1>1, <1>2, RowsOnlyByCancel, StockIsSound, PTL DEF Spec

-----------------------------------------------------------------------------
(* Notifications.  What LogIsTrue says of the rows of a task is a matter of *)
(* counting, because a worker that is lost after it has queued its retry    *)
(* leaves two messages for one task, and two workers may then be busy with  *)
(* it.  Each message in the queue and each worker that is busy is worth the *)
(* rows that may still come of it; a step of a worker moves what it is      *)
(* worth from one account to another, and only the loss of a worker makes   *)
(* more of it.                                                              *)
(* A number for each place, and their total: as many pairs of a place and a *)
(* number from 1 to its own.                                                *)
Total(f) == Cardinality(UNION {{x} \X (1..f[x]) : x \in DOMAIN f})

On(w, t) == work[w] # NoTask /\ work[w].task = t
OnChannel(w, t, c) == On(w, t) /\ Channel(w) = c

(* The worker is still to create a row for the channel.                     *)
Ahead(w, c) ==
  \/ work[w].step = "create" /\ c \in work[w].todo
  \/ work[w].step \in {"call", "mark"} /\ c \in work[w].todo \ {Channel(w)}

(* The rows for the channel that come of what the worker does, and of the   *)
(* messages in the queue, unless a worker is lost.                          *)
RowsBy(w, t, c) ==
  IF On(w, t) /\ work[w].step # "ack"
  THEN MaxRetries - work[w].retries + (IF Ahead(w, c) THEN 1 ELSE 0)
  ELSE 0

ToCome(t, c) == [w \in Workers |-> RowsBy(w, t, c)]
Attempts(t) == [r \in Retries |-> queue[t][r] * (MaxRetries + 1 - r)]

(* Workers with a task that is not done, with a row that is PENDING, on     *)
(* their way to the provider, and back with its consent.                    *)
Busy(t) ==
  [w \in Workers |-> IF On(w, t) /\ work[w].step # "ack" THEN 1 ELSE 0]
OpenRows(t, c) ==
  [w \in Workers |->
     IF OnChannel(w, t, c) /\ work[w].step \in {"call", "mark"} THEN 1 ELSE 0]
Calling(t, c) ==
  [w \in Workers |->
     IF OnChannel(w, t, c) /\ work[w].step = "call" THEN 1 ELSE 0]
Taken(t, c) ==
  [w \in Workers |->
     IF OnChannel(w, t, c) /\ work[w].step = "mark" /\ work[w].result = "ok"
     THEN 1 ELSE 0]

Budget == (MaxRetries + 1) * (crashes + 1)

ChannelSound(t, c) ==
  /\ Total(Attempts(t)) + Total(ToCome(t, c)) + RowsOf(t, c) <= Budget
  /\ Total(OpenRows(t, c)) <= rows[t][c]["PENDING"]
  /\ accepted[t][c] + Total(Calling(t, c)) <= RowsOf(t, c)
  /\ Sent(t, c) + Total(Taken(t, c)) <= accepted[t][c]

(* A send task is in one place at a time, but for the workers lost, and is  *)
(* done with only after its row says SENT, if there is a template at all.   *)
Resolved(t) == Sent(t, "SMS") >= 1 \/ ~HasTemplate(t, "SMS")

SendSound(t) ==
  /\ Total(queue[t]) + Total(Busy(t)) + Sent(t, "SMS") <= 1 + crashes
  /\ outcome[t] = "SUCCESS" => Resolved(t)
  /\ \A w \in Workers :
       On(w, t) => /\ work[w].todo \subseteq {"SMS"}
                   /\ work[w].step = "ack" /\ work[w].result = "none" =>
                        Resolved(t)

TaskSound(t) ==
  /\ outcome[t] = "none" =>
       /\ queue[t] = [r \in Retries |-> 0]
       /\ \A w \in Workers : ~On(w, t)
       /\ \A c \in Channels : RowsOf(t, c) = 0
  /\ \A w \in Workers :
       On(w, t) /\ work[w].step \in {"create", "call", "mark"} =>
         work[w].todo # {}
  /\ \A c \in Channels : ChannelSound(t, c)
  /\ t \in SendTasks => SendSound(t)

(* The inductive invariant.                                                 *)
LogsSound == LogTypeOK /\ \A t \in Tasks : TaskSound(t)

-----------------------------------------------------------------------------
(* Totals.                                                                  *)

LEMMA TotalType ==
  ASSUME NEW D, IsFiniteSet(D), NEW f \in [D -> Nat]
  PROVE  /\ IsFiniteSet(UNION {{x} \X (1..f[x]) : x \in D})
         /\ Total(f) \in Nat
<1> DEFINE pairs == [x \in D |-> {x} \X (1..f[x])]
           T == {{x} \X (1..f[x]) : x \in D}
<1>1. pairs \in Surjection(D, T)
  BY DEF Surjection
<1>2. IsFiniteSet(T)
  BY <1>1, FS_Surjection
<1>3. ASSUME NEW x \in D PROVE IsFiniteSet({x} \X (1..f[x]))
  <2>1. PICK n \in Nat : n = f[x]
    OBVIOUS
  <2>2. IsFiniteSet({x})
    BY FS_Singleton
  <2>3. IsFiniteSet(1..n)
    BY FS_Interval
  <2>4. IsFiniteSet({x} \X (1..n))
    BY <2>2, <2>3, FS_Product, Zenon
  <2> QED
    BY <2>1, <2>4
<1>4. \A pair \in T : IsFiniteSet(pair)
  BY <1>3
<1>5. IsFiniteSet(UNION T)
  BY <1>2, <1>4, FS_UNION
<1> QED
  BY <1>5, FS_CardinalityType DEF Total

(* A number and the total of the others.                                    *)
LEMMA TotalSplit ==
  ASSUME NEW D, IsFiniteSet(D), NEW f \in [D -> Nat], NEW x \in D
  PROVE  Total(f) = Total([y \in D \ {x} |-> f[y]]) + f[x]
<1> DEFINE rest == [y \in D \ {x} |-> f[y]]
           Rest == UNION {{y} \X (1..rest[y]) : y \in D \ {x}}
<1>1. PICK n \in Nat : n = f[x]
  OBVIOUS
<1> DEFINE own == {x} \X (1..n)
<1>2. UNION {{y} \X (1..f[y]) : y \in D} = Rest \cup own
  <2>1. ASSUME NEW z \in UNION {{y} \X (1..f[y]) : y \in D}
        PROVE  z \in Rest \cup own
    <3>1. PICK y \in D : z \in {y} \X (1..f[y])
      OBVIOUS
    <3>2. CASE y = x
      BY <1>1, <3>1, <3>2
    <3>3. CASE y # x
      BY <3>1, <3>3
    <3> QED
      BY <3>2, <3>3
  <2>2. ASSUME NEW z \in Rest \cup own
        PROVE  z \in UNION {{y} \X (1..f[y]) : y \in D}
    <3>1. CASE z \in own
      BY <1>1, <3>1
    <3>2. CASE z \in Rest
      <4>1. PICK y \in D \ {x} : z \in {y} \X (1..rest[y])
        BY <3>2
      <4> QED
        BY <4>1
    <3> QED
      BY <3>1, <3>2
  <2> QED
    BY <2>1, <2>2
<1>3. Rest \cap own = {}
  OBVIOUS
<1>4. IsFiniteSet(own) /\ Cardinality(own) = n
  <2>1. IsFiniteSet({x}) /\ Cardinality({x}) = 1
    BY FS_Singleton
  <2>2. IsFiniteSet(1..n) /\ Cardinality(1..n) = n
    BY FS_Interval
  <2>3. /\ IsFiniteSet(own)
        /\ Cardinality(own) = Cardinality({x}) * Cardinality(1..n)
    BY <2>1, <2>2, FS_Product, Zenon
  <2>4. Cardinality(own) = 1 * n
    BY <2>1, <2>2, <2>3
  <2> HIDE DEF own
  <2> QED
    BY <2>3, <2>4
<1>5. IsFiniteSet(Rest) /\ Total(rest) = Cardinality(Rest)
      /\ Cardinality(Rest) \in Nat
  <2>1. IsFiniteSet(D \ {x}) /\ rest \in [D \ {x} -> Nat]
    BY FS_Subset
  <2>2. DOMAIN rest = D \ {x}
    OBVIOUS
  <2> HIDE DEF rest
  <2>3. Total(rest) = Cardinality(Rest)
    BY <2>2 DEF Total
  <2> QED
    BY <2>1, <2>3, TotalType
<1>6. Total(f) = Cardinality(UNION {{y} \X (1..f[y]) : y \in D})
  BY DEF Total
<1> HIDE DEF Rest, own
<1>7. Cardinality(Rest \cup own)
        = Cardinality(Rest) + Cardinality(own) - Cardinality(Rest \cap own)
  BY <1>4, <1>5, FS_Union
<1>8. Cardinality(Rest \cap own) = 0
  BY <1>3, FS_EmptySet, Zenon
<1> QED
  BY <1>1, <1>2, <1>4, <1>5, <1>6, <1>7, <1>8

(* One number changes.                                                      *)
LEMMA TotalMoves ==
  ASSUME NEW D, IsFiniteSet(D), NEW f \in [D -> Nat], NEW g \in [D -> Nat],
         NEW x \in D, \A y \in D \ {x} : g[y] = f[y]
  PROVE  /\ Total(g) + f[x] = Total(f) + g[x]
         /\ Total(f) \in Nat /\ Total(g) \in Nat
         /\ f[x] <= Total(f)
<1>1. [y \in D \ {x} |-> g[y]] = [y \in D \ {x} |-> f[y]]
  OBVIOUS
<1> DEFINE rest == [y \in D \ {x} |-> f[y]]
<1>2. Total(rest) \in Nat
  <2>1. IsFiniteSet(D \ {x}) /\ rest \in [D \ {x} -> Nat]
    BY FS_Subset
  <2> QED
    BY <2>1, TotalType
<1>3. Total(f) = Total(rest) + f[x] /\ Total(g) = Total(rest) + g[x]
  BY <1>1, TotalSplit
<1> HIDE DEF rest
<1> QED
  BY <1>2, <1>3

LEMMA TotalZero ==
  ASSUME NEW D, NEW f, f = [x \in D |-> 0]
  PROVE  Total(f) = 0
<1>1. UNION {{x} \X (1..f[x]) : x \in DOMAIN f} = {}
  OBVIOUS
<1> QED
  BY <1>1, FS_EmptySet DEF Total

-----------------------------------------------------------------------------
LEMMA Product ==
  ASSUME NEW m \in Nat, NEW n \in Nat
  PROVE  /\ m * n \in Nat
         /\ (m + 1) * n = m * n + n
         /\ n > 0 => m <= m * n
OBVIOUS

LEMMA Constants == LogGiven =>
  /\ MaxRetries \in Nat /\ IsFiniteSet(Retries) /\ IsFiniteSet(Workers)
  /\ 0 \in Retries
  /\ \A r \in Retries :
       /\ r \in Nat /\ MaxRetries - r \in Nat
       /\ r < MaxRetries => r + 1 \in Retries
<1> SUFFICES ASSUME LogGiven PROVE IsFiniteSet(Retries)
  BY DEF LogGiven, Retries
<1> QED
  BY FS_Interval DEF LogGiven, Retries

(* What is counted are natural numbers.                                     *)
Counts(t) ==
  /\ queue[t] \in [Retries -> Nat]
  /\ Attempts(t) \in [Retries -> Nat]
  /\ Busy(t) \in [Workers -> Nat]
  /\ \A c \in Channels :
       /\ ToCome(t, c) \in [Workers -> Nat]
       /\ OpenRows(t, c) \in [Workers -> Nat]
       /\ Calling(t, c) \in [Workers -> Nat]
       /\ Taken(t, c) \in [Workers -> Nat]
       /\ rows[t][c] \in [Status -> Nat]
       /\ RowsOf(t, c) \in Nat /\ Sent(t, c) \in Nat
       /\ rows[t][c]["PENDING"] \in Nat
       /\ accepted[t][c] \in Nat
  /\ crashes \in Nat /\ Budget \in Nat

LEMMA NumbersOf ==
  ASSUME LogGiven, LogTypeOK, NEW t \in Tasks
  PROVE  Counts(t)
<1>1. queue[t] \in [Retries -> Nat]
  BY DEF LogTypeOK
<1>2. MaxRetries \in Nat
  BY Constants
<1>3. ASSUME NEW r \in Retries
      PROVE  queue[t][r] * (MaxRetries + 1 - r) \in Nat
  <2>1. queue[t][r] \in Nat /\ MaxRetries + 1 - r \in Nat
    BY <1>1, <1>2, Constants
  <2> QED
    BY <2>1, Product
<1>4. Attempts(t) \in [Retries -> Nat]
  BY <1>3 DEF Attempts
<1>5. Busy(t) \in [Workers -> Nat]
  BY DEF Busy
<1>6. ASSUME NEW c \in Channels
      PROVE  /\ ToCome(t, c) \in [Workers -> Nat]
             /\ OpenRows(t, c) \in [Workers -> Nat]
             /\ Calling(t, c) \in [Workers -> Nat]
             /\ Taken(t, c) \in [Workers -> Nat]
  <2>1. ASSUME NEW w \in Workers PROVE RowsBy(w, t, c) \in Nat
    <3>1. On(w, t) => work[w].retries \in Retries
      BY DEF LogTypeOK, Work, On
    <3> QED
      BY <1>2, <3>1, Constants DEF RowsBy
  <2> QED
    BY <2>1 DEF ToCome, OpenRows, Calling, Taken
<1>7. ASSUME NEW c \in Channels
      PROVE  /\ rows[t][c] \in [Status -> Nat]
             /\ RowsOf(t, c) \in Nat /\ Sent(t, c) \in Nat
             /\ rows[t][c]["PENDING"] \in Nat
             /\ accepted[t][c] \in Nat
  <2>1. rows[t][c] \in [Status -> Nat] /\ accepted[t][c] \in Nat
    BY DEF LogTypeOK
  <2> QED
    BY <2>1 DEF Status, RowsOf, Sent
<1>8. crashes \in Nat
  BY DEF LogTypeOK, LogGiven
<1>9. Budget \in Nat
  BY <1>2, <1>8, Product DEF Budget
<1> QED
  BY <1>1, <1>4, <1>5, <1>6, <1>7, <1>8, <1>9 DEF Counts

LEMMA Numbers == LogGiven => (LogTypeOK => \A t \in Tasks : Counts(t))
BY NumbersOf

LEMMA NumbersNext ==
  ASSUME LogGiven, LogTypeOK'
  PROVE  \A t \in Tasks : Counts(t)'
<1>1. LogGiven'
  BY DEF LogGiven
<1>2. (\A t \in Tasks : Counts(t))'
  BY <1>1, Numbers, PTL
<1> QED
  BY <1>2

LEMMA Monotone ==
  ASSUME NEW m \in Nat, NEW a \in Nat, NEW b \in Nat
  PROVE  /\ (m + 1) * (b + 1) \in Nat
         /\ a <= b => (m + 1) * (a + 1) <= (m + 1) * (b + 1)
         /\ b = a + 1 => (m + 1) * (b + 1) = (m + 1) * (a + 1) + m + 1
         /\ m + 1 <= (m + 1) * (a + 1)
<1>1. m + 1 \in Nat /\ (m + 1) * (b + 1) \in Nat
  BY Product
<1>2. ASSUME a <= b PROVE (m + 1) * (a + 1) <= (m + 1) * (b + 1)
  <2>1. PICK d \in Nat : b = a + d
    BY <1>2
  <2>2. (m + 1) * ((a + 1) + d) = (m + 1) * (a + 1) + (m + 1) * d
    OBVIOUS
  <2>3. (m + 1) * d \in Nat /\ (m + 1) * (a + 1) \in Nat
    BY <1>1, Product
  <2> QED
    BY <2>1, <2>2, <2>3
<1>3. (m + 1) * ((a + 1) + 1) = (m + 1) * (a + 1) + m + 1
  OBVIOUS
<1>4. (m + 1) * (a + 1) = (m + 1) * a + m + 1 /\ (m + 1) * a \in Nat
  BY <1>1, Product
<1> QED
  BY <1>1, <1>2, <1>3, <1>4

LEMMA BudgetGrows ==
  ASSUME LogGiven, crashes \in Nat, crashes' \in Nat
  PROVE  /\ Budget' \in Nat
         /\ crashes <= crashes' => Budget <= Budget'
         /\ crashes' = crashes + 1 => Budget' = Budget + MaxRetries + 1
         /\ MaxRetries + 1 <= Budget
<1>1. MaxRetries \in Nat
  BY Constants
<1>2. /\ Budget = (MaxRetries + 1) * (crashes + 1)
      /\ Budget' = (MaxRetries + 1) * (crashes' + 1)
  BY DEF Budget
<1> QED
  BY <1>1, <1>2, Monotone

(* The task t is not disturbed by what happens to others.                   *)
LEMMA OtherTasks ==
  ASSUME LogGiven, LogTypeOK, LogTypeOK', NEW t \in Tasks, TaskSound(t),
         queue'[t] = queue[t], rows'[t] = rows[t],
         accepted'[t] = accepted[t], outcome'[t] = outcome[t],
         crashes <= crashes',
         \A w \in Workers : work'[w] = work[w] \/ (~On(w, t) /\ ~On(w, t)')
  PROVE  TaskSound(t)'
<1>1. /\ Attempts(t)' = Attempts(t)
      /\ Busy(t)' = Busy(t)
      /\ \A c \in Channels :
           /\ ToCome(t, c)' = ToCome(t, c)
           /\ OpenRows(t, c)' = OpenRows(t, c)
           /\ Calling(t, c)' = Calling(t, c)
           /\ Taken(t, c)' = Taken(t, c)
  <2>1. \A w \in Workers :
          /\ On(w, t)' <=> On(w, t)
          /\ On(w, t) => work'[w] = work[w]
          /\ \A c \in Channels :
               /\ OnChannel(w, t, c)' <=> OnChannel(w, t, c)
               /\ On(w, t) => (Ahead(w, c)' <=> Ahead(w, c))
    BY DEF On, OnChannel, Channel, Ahead
  <2>2. ASSUME NEW w \in Workers, NEW c \in Channels
        PROVE  RowsBy(w, t, c)' = RowsBy(w, t, c)
    <3>1. CASE ~On(w, t)
      BY <2>1, <3>1 DEF RowsBy
    <3>2. CASE On(w, t)
      <4>1. Ahead(w, c)' <=> Ahead(w, c)
        BY <2>1, <3>2
      <4> QED
        BY <2>1, <3>2, <4>1 DEF RowsBy
    <3> QED
      BY <3>1, <3>2
  <2>3. Attempts(t)' = Attempts(t)
    BY DEF Attempts
  <2>4. Busy(t)' = Busy(t)
    BY <2>1 DEF Busy
  <2>5. ASSUME NEW c \in Channels
        PROVE  /\ ToCome(t, c)' = ToCome(t, c)
               /\ OpenRows(t, c)' = OpenRows(t, c)
               /\ Calling(t, c)' = Calling(t, c)
               /\ Taken(t, c)' = Taken(t, c)
    <3>1. ToCome(t, c)' = ToCome(t, c)
      BY <2>2 DEF ToCome
    <3>2. OpenRows(t, c)' = OpenRows(t, c)
      BY <2>1 DEF OpenRows, OnChannel
    <3>3. Calling(t, c)' = Calling(t, c)
      BY <2>1 DEF Calling, OnChannel
    <3>4. Taken(t, c)' = Taken(t, c)
      BY <2>1 DEF Taken, OnChannel
    <3> QED
      BY <3>1, <3>2, <3>3, <3>4
  <2> QED
    BY <2>3, <2>4, <2>5
<1>2. crashes \in Nat /\ crashes' \in Nat /\ Budget \in Nat /\ Budget <= Budget'
  <2>1. crashes \in Nat /\ crashes' \in Nat
    BY DEF LogTypeOK, LogGiven
  <2>2. Budget \in Nat
    BY Numbers DEF Counts
  <2> QED
    BY <2>1, <2>2, BudgetGrows
<1>3. ASSUME NEW c \in Channels PROVE ChannelSound(t, c)'
  <2>1. /\ RowsOf(t, c)' = RowsOf(t, c) /\ Sent(t, c)' = Sent(t, c)
        /\ ChannelSound(t, c)
    BY DEF RowsOf, Sent, TaskSound
  <2>2. /\ Total(Attempts(t)) \in Nat /\ Total(ToCome(t, c)) \in Nat
        /\ RowsOf(t, c) \in Nat /\ Budget' \in Nat
    BY Constants, Numbers, TotalType, <1>2, BudgetGrows DEF Counts
  <2> QED
    BY <1>1, <1>2, <2>1, <2>2 DEF ChannelSound
<1>4. t \in SendTasks => SendSound(t)'
  <2>1. /\ Sent(t, "SMS")' = Sent(t, "SMS")
        /\ t \in SendTasks => SendSound(t)
    BY DEF Sent, TaskSound
  <2>2. /\ Total(queue[t]) \in Nat /\ Total(Busy(t)) \in Nat
        /\ Sent(t, "SMS") \in Nat
    BY Constants, Numbers, TotalType DEF Channels, Counts
  <2>3. \A w \in Workers : On(w, t)' => On(w, t) /\ work'[w] = work[w]
    BY DEF On
  <2> QED
    BY <1>1, <1>2, <2>1, <2>2, <2>3 DEF SendSound, Resolved
<1>5. /\ outcome'[t] = "none" =>
           /\ queue'[t] = [r \in Retries |-> 0]
           /\ \A w \in Workers : ~On(w, t)'
           /\ \A c \in Channels : RowsOf(t, c)' = 0
      /\ \A w \in Workers :
           On(w, t)' /\ work'[w].step \in {"create", "call", "mark"} =>
             work'[w].todo # {}
  BY DEF TaskSound, RowsOf, On
<1> QED
  BY <1>3, <1>4, <1>5 DEF TaskSound

(* A step of w with the task t: it makes room in one account for what it    *)
(* adds to another.                                                         *)
Balanced(w, t, c) ==
  /\ Total(Attempts(t)') + RowsBy(w, t, c)' + RowsOf(t, c)' + Budget
       <= Total(Attempts(t)) + RowsBy(w, t, c) + RowsOf(t, c) + Budget'
  /\ OpenRows(t, c)'[w] + rows[t][c]["PENDING"]
       <= OpenRows(t, c)[w] + rows'[t][c]["PENDING"]
  /\ accepted'[t][c] + Calling(t, c)'[w] + RowsOf(t, c)
       <= accepted[t][c] + Calling(t, c)[w] + RowsOf(t, c)'
  /\ Sent(t, c)' + Taken(t, c)'[w] + accepted[t][c]
       <= Sent(t, c) + Taken(t, c)[w] + accepted'[t][c]

SendBalanced(w, t) ==
  Total(queue'[t]) + Busy(t)'[w] + Sent(t, "SMS")' + crashes
    <= Total(queue[t]) + Busy(t)[w] + Sent(t, "SMS") + crashes'

SendStep(w, t) ==
  /\ Sent(t, "SMS") <= Sent(t, "SMS")'
  /\ outcome'[t] = "SUCCESS" =>
       outcome[t] = "SUCCESS" \/ Resolved(t)'
  /\ On(w, t)' =>
       /\ work'[w].todo \subseteq {"SMS"}
       /\ work'[w].step = "ack" /\ work'[w].result = "none" =>
            Resolved(t)'

(* Nothing else changes.                                                    *)
Local(w, t) ==
  /\ \A v \in Workers \ {w} : work'[v] = work[v]
  /\ On(w, t) \/ work[w] = NoTask
  /\ On(w, t)' \/ work'[w] = NoTask
  /\ \A u \in Tasks \ {t} :
       /\ queue'[u] = queue[u] /\ rows'[u] = rows[u]
       /\ accepted'[u] = accepted[u] /\ outcome'[u] = outcome[u]
  /\ crashes <= crashes' /\ outcome'[t] # "none"
  /\ On(w, t)' /\ work'[w].step \in {"create", "call", "mark"} =>
       work'[w].todo # {}

LEMMA WorkerKeeps ==
  ASSUME LogGiven, LogsSound, LogTypeOK', NEW w \in Workers, NEW t \in Tasks,
         Local(w, t), \A c \in Channels : Balanced(w, t, c),
         t \in SendTasks => SendBalanced(w, t) /\ SendStep(w, t)
  PROVE  LogsSound'
<1>1. LogTypeOK /\ TaskSound(t) /\ IsFiniteSet(Workers)
      /\ IsFiniteSet(Retries)
  BY Constants DEF LogsSound
<1>2. ASSUME NEW u \in Tasks, u # t PROVE TaskSound(u)'
  <2>1. \A v \in Workers : work'[v] = work[v] \/ (~On(v, u) /\ ~On(v, u)')
    BY <1>2 DEF On, Local
  <2>2. TaskSound(u)
    BY DEF LogsSound
  <2> QED
    BY <1>1, <1>2, <2>1, <2>2, OtherTasks DEF Local
<1>3. Counts(t) /\ Counts(t)'
  BY <1>1, Numbers, NumbersNext
<1>4. ASSUME NEW v \in Workers \ {w}
      PROVE  /\ work'[v] = work[v]
             /\ On(v, t)' <=> On(v, t)
             /\ Busy(t)'[v] = Busy(t)[v]
  BY DEF On, Local, Busy
<1>5. ASSUME NEW v \in Workers \ {w}, NEW c \in Channels
      PROVE  /\ ToCome(t, c)'[v] = ToCome(t, c)[v]
             /\ OpenRows(t, c)'[v] = OpenRows(t, c)[v]
             /\ Calling(t, c)'[v] = Calling(t, c)[v]
             /\ Taken(t, c)'[v] = Taken(t, c)[v]
  <2>1. work'[v] = work[v] /\ (On(v, t)' <=> On(v, t))
    BY <1>4
  <2>2. /\ OnChannel(v, t, c)' <=> OnChannel(v, t, c)
        /\ Ahead(v, c)' <=> Ahead(v, c)
    BY <2>1 DEF OnChannel, Channel, Ahead
  <2>3. RowsBy(v, t, c)' = RowsBy(v, t, c)
    BY <2>1, <2>2 DEF RowsBy
  <2> QED
    BY <2>1, <2>2, <2>3 DEF ToCome, OpenRows, Calling, Taken
<1>6. ASSUME NEW c \in Channels PROVE ChannelSound(t, c)'
  <2>1. /\ Total(ToCome(t, c)') + RowsBy(w, t, c)
             = Total(ToCome(t, c)) + RowsBy(w, t, c)'
        /\ Total(ToCome(t, c)') \in Nat /\ Total(ToCome(t, c)) \in Nat
        /\ RowsBy(w, t, c) \in Nat /\ RowsBy(w, t, c)' \in Nat
    <3>1. /\ ToCome(t, c)[w] = RowsBy(w, t, c)
          /\ ToCome(t, c)'[w] = RowsBy(w, t, c)'
          /\ \A v \in Workers \ {w} : ToCome(t, c)'[v] = ToCome(t, c)[v]
      BY <1>5 DEF ToCome
    <3>2. /\ ToCome(t, c) \in [Workers -> Nat]
          /\ ToCome(t, c)' \in [Workers -> Nat]
      BY <1>3 DEF Counts
    <3> QED
      BY <1>1, <3>1, <3>2, TotalMoves
  <2>2. /\ Total(OpenRows(t, c)') + OpenRows(t, c)[w] = Total(OpenRows(t, c)) + OpenRows(t, c)'[w]
        /\ Total(OpenRows(t, c)') \in Nat /\ Total(OpenRows(t, c)) \in Nat
        /\ OpenRows(t, c)[w] \in Nat /\ OpenRows(t, c)'[w] \in Nat
    <3>1. \A v \in Workers \ {w} : OpenRows(t, c)'[v] = OpenRows(t, c)[v]
      BY <1>5
    <3>2. OpenRows(t, c) \in [Workers -> Nat] /\ OpenRows(t, c)' \in [Workers -> Nat]
      BY <1>3 DEF Counts
    <3> QED
      BY <1>1, <3>1, <3>2, TotalMoves
  <2>3. /\ Total(Calling(t, c)') + Calling(t, c)[w]
             = Total(Calling(t, c)) + Calling(t, c)'[w]
        /\ Total(Calling(t, c)') \in Nat /\ Total(Calling(t, c)) \in Nat
        /\ Calling(t, c)[w] \in Nat /\ Calling(t, c)'[w] \in Nat
    <3>1. \A v \in Workers \ {w} : Calling(t, c)'[v] = Calling(t, c)[v]
      BY <1>5
    <3>2. /\ Calling(t, c) \in [Workers -> Nat]
          /\ Calling(t, c)' \in [Workers -> Nat]
      BY <1>3 DEF Counts
    <3> QED
      BY <1>1, <3>1, <3>2, TotalMoves
  <2>4. /\ Total(Taken(t, c)') + Taken(t, c)[w]
             = Total(Taken(t, c)) + Taken(t, c)'[w]
        /\ Total(Taken(t, c)') \in Nat /\ Total(Taken(t, c)) \in Nat
        /\ Taken(t, c)[w] \in Nat /\ Taken(t, c)'[w] \in Nat
    <3>1. \A v \in Workers \ {w} : Taken(t, c)'[v] = Taken(t, c)[v]
      BY <1>5
    <3>2. Taken(t, c) \in [Workers -> Nat] /\ Taken(t, c)' \in [Workers -> Nat]
      BY <1>3 DEF Counts
    <3> QED
      BY <1>1, <3>1, <3>2, TotalMoves
  <2>5. Total(Attempts(t)) \in Nat /\ Total(Attempts(t)') \in Nat
    BY <1>1, <1>3, TotalType DEF Counts
  <2>6. /\ RowsOf(t, c) \in Nat /\ Sent(t, c) \in Nat
        /\ rows[t][c]["PENDING"] \in Nat
        /\ accepted[t][c] \in Nat /\ Budget \in Nat
        /\ RowsOf(t, c)' \in Nat /\ Sent(t, c)' \in Nat
        /\ rows'[t][c]["PENDING"] \in Nat
        /\ accepted'[t][c] \in Nat /\ Budget' \in Nat
    BY <1>3 DEF Counts
  <2>7. ChannelSound(t, c) /\ Balanced(w, t, c)
    BY <1>1 DEF TaskSound
  <2>8. Total(Attempts(t)') + Total(ToCome(t, c)') + RowsOf(t, c)' <= Budget'
    BY <2>1, <2>5, <2>6, <2>7 DEF ChannelSound, Balanced
  <2>9. Total(OpenRows(t, c)') <= rows'[t][c]["PENDING"]
    BY <2>2, <2>6, <2>7 DEF ChannelSound, Balanced
  <2>10. accepted'[t][c] + Total(Calling(t, c)') <= RowsOf(t, c)'
    BY <2>3, <2>6, <2>7 DEF ChannelSound, Balanced
  <2>11. Sent(t, c)' + Total(Taken(t, c)') <= accepted'[t][c]
    BY <2>4, <2>6, <2>7 DEF ChannelSound, Balanced
  <2> QED
    BY <2>8, <2>9, <2>10, <2>11 DEF ChannelSound
<1>7. ASSUME t \in SendTasks PROVE SendSound(t)'
  <2>1. "SMS" \in Channels
    BY DEF Channels
  <2>2. /\ Total(Busy(t)') + Busy(t)[w] = Total(Busy(t)) + Busy(t)'[w]
        /\ Total(Busy(t)') \in Nat /\ Total(Busy(t)) \in Nat
        /\ Busy(t)[w] \in Nat /\ Busy(t)'[w] \in Nat
    <3>1. \A v \in Workers \ {w} : Busy(t)'[v] = Busy(t)[v]
      BY <1>4
    <3>2. Busy(t) \in [Workers -> Nat] /\ Busy(t)' \in [Workers -> Nat]
      BY <1>3 DEF Counts
    <3> QED
      BY <1>1, <3>1, <3>2, TotalMoves
  <2>3. Total(queue[t]) \in Nat /\ Total(queue'[t]) \in Nat
    BY <1>1, <1>3, TotalType DEF Counts
  <2>4. /\ Sent(t, "SMS") \in Nat /\ Sent(t, "SMS")' \in Nat
        /\ crashes \in Nat /\ crashes' \in Nat
        /\ Sent(t, "SMS") <= Sent(t, "SMS")'
        /\ SendSound(t)
    BY <1>1, <1>3, <1>7, <2>1 DEF TaskSound, SendStep, Counts
  <2>5. Total(queue'[t]) + Total(Busy(t)') + Sent(t, "SMS")' <= 1 + crashes'
    BY <1>7, <2>2, <2>3, <2>4 DEF SendSound, SendBalanced
  <2>6. /\ outcome'[t] = "SUCCESS" => Resolved(t)'
        /\ Resolved(t) => Resolved(t)'
    BY <1>7, <2>4 DEF SendSound, SendStep, Resolved
  <2>7. ASSUME NEW v \in Workers, On(v, t)'
        PROVE  /\ work'[v].todo \subseteq {"SMS"}
               /\ work'[v].step = "ack" /\ work'[v].result = "none" =>
                    Resolved(t)'
    <3>1. CASE v = w
      BY <1>7, <2>7, <3>1 DEF SendStep
    <3>2. CASE v # w
      BY <1>4, <2>4, <2>6, <2>7, <3>2 DEF SendSound
    <3> QED
      BY <3>1, <3>2
  <2> QED
    BY <2>5, <2>6, <2>7 DEF SendSound
<1>8. ASSUME NEW v \in Workers, On(v, t)',
             work'[v].step \in {"create", "call", "mark"}
      PROVE  work'[v].todo # {}
  <2>1. CASE v = w
    BY <1>8, <2>1 DEF Local
  <2>2. CASE v # w
    BY <1>1, <1>4, <1>8, <2>2 DEF TaskSound
  <2> QED
    BY <2>1, <2>2
<1>9. TaskSound(t)'
  BY <1>6, <1>7, <1>8 DEF TaskSound, Local
<1> QED
  BY <1>2, <1>9 DEF LogsSound

-----------------------------------------------------------------------------
(* The task of a worker that is not idle.                                   *)
LEMMA HasTask ==
  ASSUME LogGiven, LogsSound, NEW w \in Workers, work[w] # NoTask
  PROVE  \E t \in Tasks :
           /\ On(w, t) /\ t = work[w].task
           /\ TaskSound(t) /\ Counts(t) /\ outcome[t] # "none"
           /\ work[w] \in Work
<1>1. LogTypeOK
  BY DEF LogsSound
<1>2. work[w] \in Work /\ work[w].task \in Tasks
  BY <1>1 DEF LogTypeOK, Work
<1>3. PICK t \in Tasks : t = work[w].task
  BY <1>2
<1>4. On(w, t) /\ TaskSound(t) /\ Counts(t)
  BY <1>1, <1>3, Numbers DEF On, LogsSound
<1>5. outcome[t] # "none"
  BY <1>4 DEF TaskSound
<1> QED
  BY <1>2, <1>3, <1>4, <1>5

(* What is compared are natural numbers.                                    *)
LEMMA Typed ==
  ASSUME LogGiven, NEW w \in Workers, NEW t \in Tasks, NEW c \in Channels,
         Counts(t), Counts(t)'
  PROVE  /\ Total(Attempts(t)) \in Nat /\ Total(Attempts(t)') \in Nat
         /\ RowsBy(w, t, c) \in Nat /\ RowsBy(w, t, c)' \in Nat
         /\ RowsOf(t, c) \in Nat /\ RowsOf(t, c)' \in Nat
         /\ Sent(t, c) \in Nat /\ Sent(t, c)' \in Nat
         /\ Budget \in Nat /\ Budget' \in Nat
         /\ OpenRows(t, c)[w] \in Nat /\ OpenRows(t, c)'[w] \in Nat
         /\ Calling(t, c)[w] \in Nat /\ Calling(t, c)'[w] \in Nat
         /\ Taken(t, c)[w] \in Nat /\ Taken(t, c)'[w] \in Nat
         /\ rows[t][c]["PENDING"] \in Nat /\ rows'[t][c]["PENDING"] \in Nat
         /\ accepted[t][c] \in Nat /\ accepted'[t][c] \in Nat
<1>1. Total(Attempts(t)) \in Nat /\ Total(Attempts(t)') \in Nat
  BY Constants, TotalType DEF Counts
<1>2. /\ ToCome(t, c)[w] = RowsBy(w, t, c)
      /\ ToCome(t, c)'[w] = RowsBy(w, t, c)'
  BY DEF ToCome
<1>3. RowsBy(w, t, c) \in Nat /\ RowsBy(w, t, c)' \in Nat
  BY <1>2 DEF Counts
<1> QED
  BY <1>1, <1>3 DEF Counts

LEMMA TypedSend ==
  ASSUME LogGiven, NEW w \in Workers, NEW t \in Tasks, Counts(t), Counts(t)'
  PROVE  /\ Total(queue[t]) \in Nat /\ Total(queue'[t]) \in Nat
         /\ Busy(t)[w] \in Nat /\ Busy(t)'[w] \in Nat
         /\ Sent(t, "SMS") \in Nat /\ Sent(t, "SMS")' \in Nat
         /\ crashes \in Nat /\ crashes' \in Nat
  BY Constants, TotalType DEF Counts, Channels

(* The worker has a row that is PENDING.                                    *)
LEMMA HasRow ==
  ASSUME LogGiven, NEW w \in Workers, NEW t \in Tasks, NEW c \in Channels,
         Counts(t), ChannelSound(t, c), OnChannel(w, t, c),
         work[w].step \in {"call", "mark"}
  PROVE  rows[t][c]["PENDING"] > 0
<1>1. /\ OpenRows(t, c) \in [Workers -> Nat] /\ OpenRows(t, c)[w] = 1
      /\ rows[t][c]["PENDING"] \in Nat
  BY DEF Counts, OpenRows
<1>2. IsFiniteSet(Workers)
  BY Constants
<1>3. Total(OpenRows(t, c)) \in Nat /\ OpenRows(t, c)[w] <= Total(OpenRows(t, c))
  BY <1>1, <1>2, TotalMoves
<1> QED
  BY <1>1, <1>3 DEF ChannelSound

(* What becomes of the rows for a channel.                                  *)
LEMMA RowsAdd ==
  ASSUME NEW f \in [Status -> Nat], NEW s \in Status
  PROVE  LET g == [f EXCEPT ![s] = @ + 1]
         IN  /\ g \in [Status -> Nat] /\ g[s] = f[s] + 1
             /\ \A u \in Status \ {s} : g[u] = f[u]
             /\ g["PENDING"] + g["SENT"] + g["FAILED"]
                  = f["PENDING"] + f["SENT"] + f["FAILED"] + 1
BY DEF Status

LEMMA RowsMark ==
  ASSUME NEW f \in [Status -> Nat], NEW s \in {"SENT", "FAILED"},
         f["PENDING"] > 0
  PROVE  LET g == [f EXCEPT !["PENDING"] = @ - 1, ![s] = @ + 1]
         IN  /\ g \in [Status -> Nat]
             /\ g["PENDING"] + 1 = f["PENDING"] /\ g[s] = f[s] + 1
             /\ s = "FAILED" => g["SENT"] = f["SENT"]
             /\ g["PENDING"] + g["SENT"] + g["FAILED"]
                  = f["PENDING"] + f["SENT"] + f["FAILED"]
BY DEF Status

LEMMA RowsType ==
  ASSUME LogTypeOK, NEW t \in Tasks, NEW d \in Channels,
         NEW g \in [Status -> Nat], rows' = [rows EXCEPT ![t][d] = g]
  PROVE  /\ rows' \in [Tasks -> [Channels -> [Status -> Nat]]]
         /\ rows'[t][d] = g
         /\ \A c \in Channels \ {d} : rows'[t][c] = rows[t][c]
         /\ \A u \in Tasks \ {t} : rows'[u] = rows[u]
BY DEF LogTypeOK

LEMMA RowAdded ==
  ASSUME LogTypeOK, NEW t \in Tasks, NEW d \in Channels,
         rows' = [rows EXCEPT ![t][d]["PENDING"] = @ + 1]
  PROVE  /\ rows' \in [Tasks -> [Channels -> [Status -> Nat]]]
         /\ rows'[t][d]["PENDING"] = rows[t][d]["PENDING"] + 1
         /\ RowsOf(t, d)' = RowsOf(t, d) + 1
         /\ \A c \in Channels : Sent(t, c)' = Sent(t, c)
         /\ \A c \in Channels \ {d} : rows'[t][c] = rows[t][c]
         /\ \A u \in Tasks \ {t} : rows'[u] = rows[u]
<1>1. PICK f \in [Status -> Nat] : f = rows[t][d]
  BY DEF LogTypeOK
<1> DEFINE g == [f EXCEPT !["PENDING"] = @ + 1]
<1>2. rows' = [rows EXCEPT ![t][d] = g]
  BY <1>1 DEF LogTypeOK
<1>3. /\ g \in [Status -> Nat] /\ g["PENDING"] = f["PENDING"] + 1
      /\ g["SENT"] = f["SENT"]
      /\ g["PENDING"] + g["SENT"] + g["FAILED"]
           = f["PENDING"] + f["SENT"] + f["FAILED"] + 1
  BY RowsAdd DEF Status
<1> HIDE DEF g
<1>4. /\ rows' \in [Tasks -> [Channels -> [Status -> Nat]]]
      /\ rows'[t][d] = g
      /\ \A c \in Channels \ {d} : rows'[t][c] = rows[t][c]
      /\ \A u \in Tasks \ {t} : rows'[u] = rows[u]
  BY <1>2, <1>3, RowsType
<1>5. ASSUME NEW c \in Channels PROVE Sent(t, c)' = Sent(t, c)
  <2>1. CASE c = d
    BY <1>1, <1>3, <1>4, <2>1 DEF Sent
  <2>2. CASE c # d
    BY <1>4, <2>2 DEF Sent
  <2> QED
    BY <2>1, <2>2
<1>6. /\ rows'[t][d]["PENDING"] = rows[t][d]["PENDING"] + 1
      /\ RowsOf(t, d)' = RowsOf(t, d) + 1
  BY <1>1, <1>3, <1>4 DEF RowsOf
<1> QED
  BY <1>4, <1>5, <1>6

LEMMA RowMarked ==
  ASSUME LogTypeOK, NEW t \in Tasks, NEW d \in Channels,
         NEW s \in {"SENT", "FAILED"}, rows[t][d]["PENDING"] > 0,
         rows' = [rows EXCEPT ![t][d]["PENDING"] = @ - 1, ![t][d][s] = @ + 1]
  PROVE  /\ rows' \in [Tasks -> [Channels -> [Status -> Nat]]]
         /\ rows'[t][d]["PENDING"] + 1 = rows[t][d]["PENDING"]
         /\ RowsOf(t, d)' = RowsOf(t, d)
         /\ s = "SENT" => Sent(t, d)' = Sent(t, d) + 1
         /\ s = "FAILED" => Sent(t, d)' = Sent(t, d)
         /\ \A c \in Channels \ {d} : rows'[t][c] = rows[t][c]
         /\ \A u \in Tasks \ {t} : rows'[u] = rows[u]
<1>1. PICK f \in [Status -> Nat] : f = rows[t][d]
  BY DEF LogTypeOK
<1> DEFINE g == [f EXCEPT !["PENDING"] = @ - 1, ![s] = @ + 1]
<1>2. rows' = [rows EXCEPT ![t][d] = g]
  BY <1>1 DEF LogTypeOK
<1>3. /\ g \in [Status -> Nat] /\ g["PENDING"] + 1 = f["PENDING"]
      /\ g[s] = f[s] + 1 /\ s = "FAILED" => g["SENT"] = f["SENT"]
      /\ g["PENDING"] + g["SENT"] + g["FAILED"]
           = f["PENDING"] + f["SENT"] + f["FAILED"]
  BY <1>1, RowsMark
<1> HIDE DEF g
<1>4. /\ rows' \in [Tasks -> [Channels -> [Status -> Nat]]]
      /\ rows'[t][d] = g
      /\ \A c \in Channels \ {d} : rows'[t][c] = rows[t][c]
      /\ \A u \in Tasks \ {t} : rows'[u] = rows[u]
  BY <1>2, <1>3, RowsType
<1>5. RowsOf(t, d)' = RowsOf(t, d)
  BY <1>1, <1>3, <1>4 DEF RowsOf
<1>6. /\ s = "SENT" => Sent(t, d)' = Sent(t, d) + 1
      /\ s = "FAILED" => Sent(t, d)' = Sent(t, d)
  BY <1>1, <1>3, <1>4 DEF Sent
<1> QED
  BY <1>1, <1>3, <1>4, <1>5, <1>6

(* The worker goes on with its task, or is done with it.                    *)
Becomes(w, left, step, result) ==
  /\ work' \in [Workers -> Work \cup {NoTask}]
  /\ work'[w] \in Work
  /\ work'[w].task = work[w].task /\ work'[w].retries = work[w].retries
  /\ work'[w].todo = left /\ work'[w].step = step
  /\ work'[w].result = result
  /\ \A v \in Workers \ {w} : work'[v] = work[v]

LEMMA Goes ==
  ASSUME LogTypeOK, NEW w \in Workers, work[w] \in Work,
         NEW step \in Steps, NEW result \in Results, Goto(w, step, result)
  PROVE  Becomes(w, work[w].todo, step, result)
<1>1. [work[w] EXCEPT !.step = step, !.result = result] \in Work
  BY DEF Work
<1>2. /\ work'[w] = [work[w] EXCEPT !.step = step, !.result = result]
      /\ \A v \in Workers \ {w} : work'[v] = work[v]
      /\ work' \in [Workers -> Work \cup {NoTask}]
  BY <1>1 DEF Goto, LogTypeOK
<1> QED
  BY <1>1, <1>2 DEF Becomes, Work

LEMMA GoesOn ==
  ASSUME LogTypeOK, NEW w \in Workers, work[w] \in Work, NextChannel(w)
  PROVE  LET rest == work[w].todo \ {Channel(w)}
         IN  Becomes(w, rest, IF rest = {} THEN "ack" ELSE "create", "none")
<1> DEFINE rest == work[w].todo \ {Channel(w)}
           step == IF rest = {} THEN "ack" ELSE "create"
           x == [work[w] EXCEPT !.todo = rest, !.result = "none",
                                !.step = step]
<1>1. rest \in SUBSET Channels /\ step \in Steps
  BY DEF Work, Steps
<1>2. work' = [work EXCEPT ![w].todo = rest, ![w].result = "none",
                           ![w].step = step]
  BY DEF NextChannel
<1> HIDE DEF rest, step
<1>3. /\ x \in Work
      /\ x.task = work[w].task /\ x.retries = work[w].retries
      /\ x.todo = rest /\ x.step = step /\ x.result = "none"
  BY <1>1 DEF Work, Results
<1>4. /\ work'[w] = x
      /\ \A v \in Workers \ {w} : work'[v] = work[v]
      /\ work' \in [Workers -> Work \cup {NoTask}]
  BY <1>2, <1>3 DEF LogTypeOK
<1> HIDE DEF x
<1>5. Becomes(w, rest, step, "none")
  BY <1>3, <1>4 DEF Becomes
<1> QED
  BY <1>5 DEF rest, step

LEMMA Rests ==
  ASSUME LogTypeOK, NEW w \in Workers, work' = [work EXCEPT ![w] = NoTask]
  PROVE  /\ work' \in [Workers -> Work \cup {NoTask}] /\ work'[w] = NoTask
         /\ \A v \in Workers \ {w} : work'[v] = work[v]
BY DEF LogTypeOK

(* A worker that goes on does not bring more rows.                          *)
LEMMA FewerRows ==
  ASSUME LogGiven, NEW w \in Workers, NEW t \in Tasks, NEW c \in Channels,
         On(w, t), work[w] \in Work, work[w].step # "ack",
         work'[w] = NoTask \/ work'[w].retries = work[w].retries
  PROVE  /\ (Ahead(w, c)' => Ahead(w, c)) => RowsBy(w, t, c)' <= RowsBy(w, t, c)
         /\ Ahead(w, c) /\ ~Ahead(w, c)' =>
              RowsBy(w, t, c)' + 1 <= RowsBy(w, t, c)
<1>1. /\ MaxRetries \in Nat /\ work[w].retries \in Nat
      /\ MaxRetries - work[w].retries \in Nat
  BY Constants DEF Work
<1> QED
  BY <1>1 DEF RowsBy, On

(* The worker neither writes a row for the channel nor goes to or comes     *)
(* from the provider.                                                       *)
LEMMA QuietBalance ==
  ASSUME LogGiven, NEW w \in Workers, NEW t \in Tasks, NEW c \in Channels,
         Counts(t), Counts(t)',
         rows'[t][c] = rows[t][c], accepted'[t][c] = accepted[t][c],
         OnChannel(w, t, c)' => work'[w].step \notin {"call", "mark"},
         Total(Attempts(t)') + RowsBy(w, t, c)' + Budget
           <= Total(Attempts(t)) + RowsBy(w, t, c) + Budget'
  PROVE  Balanced(w, t, c)
<1>1. /\ RowsOf(t, c)' = RowsOf(t, c) /\ Sent(t, c)' = Sent(t, c)
      /\ rows'[t][c]["PENDING"] = rows[t][c]["PENDING"]
  BY DEF RowsOf, Sent
<1>2. /\ OpenRows(t, c)'[w] = 0 /\ Calling(t, c)'[w] = 0
      /\ Taken(t, c)'[w] = 0
  BY DEF OpenRows, Calling, Taken
<1> QED
  BY <1>1, <1>2, Typed DEF Balanced

-----------------------------------------------------------------------------
(* The steps of a worker.                                                   *)

LEMMA RowKeeps ==
  ASSUME LogGiven, LogsSound, NEW w \in Workers, Create(w)
  PROVE  LogsSound'
<1>1. LogTypeOK /\ work[w] # NoTask /\ work[w].step = "create"
  BY DEF Create, At, LogsSound
<1>2. PICK t \in Tasks :
        /\ On(w, t) /\ t = work[w].task
        /\ TaskSound(t) /\ Counts(t) /\ outcome[t] # "none"
        /\ work[w] \in Work
  BY <1>1, HasTask
<1>3. Becomes(w, work[w].todo, "call", "none")
  BY <1>1, <1>2, Goes DEF Create, Steps, Results
<1>4. PICK d \in Channels : d = Channel(w) /\ d \in work[w].todo
  BY <1>1, <1>2 DEF Channel, Channels, TaskSound, Work
<1>5. /\ rows' \in [Tasks -> [Channels -> [Status -> Nat]]]
      /\ rows'[t][d]["PENDING"] = rows[t][d]["PENDING"] + 1
      /\ RowsOf(t, d)' = RowsOf(t, d) + 1
      /\ \A c \in Channels : Sent(t, c)' = Sent(t, c)
      /\ \A c \in Channels \ {d} : rows'[t][c] = rows[t][c]
      /\ \A u \in Tasks \ {t} : rows'[u] = rows[u]
  <2>1. rows' = [rows EXCEPT ![t][d]["PENDING"] = @ + 1]
    BY <1>2, <1>4 DEF Create
  <2> QED
    BY <1>1, <2>1, RowAdded
<1>7. /\ queue' = queue /\ accepted' = accepted
      /\ outcome' = outcome /\ crashes' = crashes
  BY DEF Create
<1>8. LogTypeOK' /\ Counts(t)'
  <2>1. LogTypeOK'
    BY <1>1, <1>3, <1>5, <1>7 DEF LogTypeOK, Becomes
  <2> QED
    BY <2>1, NumbersNext
<1>9. Local(w, t)
  BY <1>1, <1>2, <1>3, <1>4, <1>5, <1>7 DEF Local, On, Becomes, LogTypeOK, LogGiven
<1>10. Attempts(t)' = Attempts(t) /\ Budget' = Budget
  BY <1>7 DEF Attempts, Budget
<1>11. Channel(w)' = d
  BY <1>3, <1>4 DEF Channel, Becomes
<1>12. ASSUME NEW c \in Channels PROVE Balanced(w, t, c)
  <2>1. CASE c = d
    <3>1. /\ RowsOf(t, c)' = RowsOf(t, c) + 1
          /\ Sent(t, c)' = Sent(t, c)
          /\ rows'[t][c]["PENDING"] = rows[t][c]["PENDING"] + 1
      BY <1>5, <2>1
    <3>2. Ahead(w, c) /\ ~Ahead(w, c)'
      BY <1>1, <1>3, <1>4, <1>11, <2>1 DEF Ahead, Becomes
    <3>3. RowsBy(w, t, c)' + 1 <= RowsBy(w, t, c)
      BY <1>1, <1>2, <1>3, <3>2, FewerRows DEF Becomes
    <3>4. /\ OpenRows(t, c)[w] = 0 /\ OpenRows(t, c)'[w] <= 1
          /\ Calling(t, c)[w] = 0 /\ Calling(t, c)'[w] <= 1
      BY <1>1 DEF OpenRows, Calling
    <3>5. Taken(t, c)[w] = 0 /\ Taken(t, c)'[w] = 0
      BY <1>1, <1>3 DEF Taken, Becomes
    <3>6. accepted'[t][c] = accepted[t][c]
      BY <1>7
    <3> QED
      BY <1>2, <1>8, <1>10, <3>1, <3>3, <3>4, <3>5, <3>6, Typed DEF Balanced
  <2>2. CASE c # d
    <3>1. Ahead(w, c)' => Ahead(w, c)
      BY <1>1, <1>3, <1>4, <1>11 DEF Ahead, Becomes
    <3>2. RowsBy(w, t, c)' <= RowsBy(w, t, c)
      BY <1>1, <1>2, <1>3, <3>1, FewerRows DEF Becomes
    <3>3. /\ rows'[t][c] = rows[t][c] /\ accepted'[t][c] = accepted[t][c]
          /\ ~OnChannel(w, t, c)'
      BY <1>5, <1>7, <1>11, <2>2 DEF OnChannel
    <3> QED
      BY <1>2, <1>8, <1>10, <3>2, <3>3, Typed, QuietBalance
  <2> QED
    BY <2>1, <2>2
<1>13. ASSUME t \in SendTasks PROVE SendBalanced(w, t) /\ SendStep(w, t)
  <2>1. Sent(t, "SMS")' = Sent(t, "SMS")
    BY <1>5 DEF Channels
  <2>2. Busy(t)'[w] <= 1 /\ Busy(t)[w] = 1
    BY <1>1, <1>2 DEF Busy
  <2>3. work[w].todo \subseteq {"SMS"}
    BY <1>2, <1>13 DEF TaskSound, SendSound
  <2>4. SendBalanced(w, t)
    BY <1>2, <1>7, <1>8, <2>1, <2>2, TypedSend DEF SendBalanced
  <2>5. SendStep(w, t)
    BY <1>2, <1>3, <1>7, <1>8, <2>1, <2>3, TypedSend DEF SendStep, Becomes
  <2> QED
    BY <2>4, <2>5
<1> QED
  BY <1>8, <1>9, <1>12, <1>13, WorkerKeeps

LEMMA CallKeeps ==
  ASSUME LogGiven, LogsSound, NEW w \in Workers, CallProvider(w)
  PROVE  LogsSound'
<1>1. LogTypeOK /\ work[w] # NoTask /\ work[w].step = "call"
  BY DEF CallProvider, At, LogsSound
<1>2. PICK t \in Tasks :
        /\ On(w, t) /\ t = work[w].task
        /\ TaskSound(t) /\ Counts(t) /\ outcome[t] # "none"
        /\ work[w] \in Work
  BY <1>1, HasTask
<1>3. PICK d \in Channels : d = Channel(w) /\ d \in work[w].todo
  BY <1>1, <1>2 DEF Channel, Channels, TaskSound, Work
<1>4. PICK result \in {"ok", "error"} :
        /\ Becomes(w, work[w].todo, "mark", result)
        /\ \/ accepted' = [accepted EXCEPT ![t][d] = @ + 1]
           \/ result = "error" /\ accepted' = accepted
  <2>1. PICK result \in {"ok", "error"} :
          /\ Goto(w, "mark", result)
          /\ \/ accepted' = [accepted EXCEPT ![t][d] = @ + 1]
             \/ result = "error" /\ accepted' = accepted
    BY <1>2, <1>3 DEF CallProvider
  <2>2. Becomes(w, work[w].todo, "mark", result)
    BY <1>1, <1>2, <2>1, Goes DEF Steps, Results
  <2> QED
    BY <2>1, <2>2
<1>5. /\ accepted' \in [Tasks -> [Channels -> Nat]]
      /\ accepted'[t][d] = accepted[t][d] + 1
           \/ (result = "error" /\ accepted'[t][d] = accepted[t][d])
      /\ \A c \in Channels \ {d} : accepted'[t][c] = accepted[t][c]
      /\ \A u \in Tasks \ {t} : accepted'[u] = accepted[u]
  <2>1. /\ accepted \in [Tasks -> [Channels -> Nat]]
        /\ accepted[t][d] + 1 \in Nat
    BY <1>1 DEF LogTypeOK
  <2>2. CASE accepted' = [accepted EXCEPT ![t][d] = @ + 1]
    BY <2>1, <2>2
  <2>3. CASE result = "error" /\ accepted' = accepted
    BY <2>1, <2>3
  <2> QED
    BY <1>4, <2>2, <2>3
<1>6. /\ queue' = queue /\ rows' = rows
      /\ outcome' = outcome /\ crashes' = crashes
  BY DEF CallProvider
<1>7. LogTypeOK' /\ Counts(t)'
  <2>1. LogTypeOK'
    BY <1>1, <1>4, <1>5, <1>6 DEF LogTypeOK, Becomes
  <2> QED
    BY <2>1, NumbersNext
<1>8. Local(w, t)
  BY <1>1, <1>2, <1>3, <1>4, <1>5, <1>6 DEF Local, On, Becomes, LogTypeOK, LogGiven
<1>9. Attempts(t)' = Attempts(t) /\ Budget' = Budget
  BY <1>6 DEF Attempts, Budget
<1>10. Channel(w)' = d
  BY <1>3, <1>4 DEF Channel, Becomes
<1>11. ASSUME NEW c \in Channels PROVE Balanced(w, t, c)
  <2>1. RowsBy(w, t, c)' <= RowsBy(w, t, c)
    <3>1. Ahead(w, c)' => Ahead(w, c)
      BY <1>1, <1>3, <1>4, <1>10 DEF Ahead, Becomes
    <3> QED
      BY <1>1, <1>2, <1>4, <3>1, FewerRows DEF Becomes
  <2>2. CASE c = d
    <3>1. /\ RowsOf(t, c)' = RowsOf(t, c) /\ Sent(t, c)' = Sent(t, c)
          /\ rows'[t][c]["PENDING"] = rows[t][c]["PENDING"]
      BY <1>6 DEF RowsOf, Sent
    <3>2. /\ OpenRows(t, c)[w] = 1 /\ OpenRows(t, c)'[w] <= 1
          /\ Calling(t, c)[w] = 1 /\ Calling(t, c)'[w] = 0
      BY <1>1, <1>2, <1>3, <1>4, <2>2
      DEF OpenRows, Calling, OnChannel, Becomes
    <3>3. /\ Taken(t, c)[w] = 0 /\ Taken(t, c)'[w] <= 1
          /\ result = "error" => Taken(t, c)'[w] = 0
      BY <1>1, <1>4 DEF Taken, Becomes
    <3> QED
      BY <1>2, <1>5, <1>7, <1>9, <2>1, <2>2, <3>1, <3>2, <3>3, Typed
      DEF Balanced
  <2>3. CASE c # d
    <3>1. /\ rows'[t][c] = rows[t][c] /\ accepted'[t][c] = accepted[t][c]
          /\ ~OnChannel(w, t, c)'
      BY <1>5, <1>6, <1>10, <2>3 DEF OnChannel
    <3> QED
      BY <1>2, <1>7, <1>9, <2>1, <3>1, Typed, QuietBalance
  <2> QED
    BY <2>2, <2>3
<1>12. ASSUME t \in SendTasks PROVE SendBalanced(w, t) /\ SendStep(w, t)
  <2>1. Sent(t, "SMS")' = Sent(t, "SMS")
    BY <1>6 DEF Sent
  <2>2. Busy(t)'[w] <= 1 /\ Busy(t)[w] = 1
    BY <1>1, <1>2 DEF Busy
  <2>3. work[w].todo \subseteq {"SMS"}
    BY <1>2, <1>12 DEF TaskSound, SendSound
  <2>4. SendBalanced(w, t)
    BY <1>2, <1>6, <1>7, <2>1, <2>2, TypedSend DEF SendBalanced
  <2>5. SendStep(w, t)
    BY <1>2, <1>4, <1>6, <1>7, <2>1, <2>3, TypedSend DEF SendStep, Becomes
  <2> QED
    BY <2>4, <2>5
<1> QED
  BY <1>7, <1>8, <1>11, <1>12, WorkerKeeps

LEMMA MarkKeeps ==
  ASSUME LogGiven, LogsSound, NEW w \in Workers, MarkSent(w) \/ MarkFailed(w)
  PROVE  LogsSound'
<1>1. LogTypeOK /\ work[w] # NoTask /\ work[w].step = "mark"
  BY DEF MarkSent, MarkFailed, At, LogsSound
<1>2. PICK t \in Tasks :
        /\ On(w, t) /\ t = work[w].task
        /\ TaskSound(t) /\ Counts(t) /\ outcome[t] # "none"
        /\ work[w] \in Work
  BY <1>1, HasTask
<1>3. PICK d \in Channels : d = Channel(w) /\ d \in work[w].todo
  BY <1>1, <1>2 DEF Channel, Channels, TaskSound, Work
<1>4. PICK s \in {"SENT", "FAILED"} :
        Mark(w, s) /\ (s = "SENT" => work[w].result = "ok")
  BY DEF MarkSent, MarkFailed
<1>5. /\ rows' \in [Tasks -> [Channels -> [Status -> Nat]]]
      /\ rows'[t][d]["PENDING"] + 1 = rows[t][d]["PENDING"]
      /\ RowsOf(t, d)' = RowsOf(t, d)
      /\ s = "SENT" => Sent(t, d)' = Sent(t, d) + 1
      /\ s = "FAILED" => Sent(t, d)' = Sent(t, d)
      /\ \A c \in Channels \ {d} : rows'[t][c] = rows[t][c]
      /\ \A u \in Tasks \ {t} : rows'[u] = rows[u]
  <2>1. ChannelSound(t, d) /\ OnChannel(w, t, d)
    BY <1>2, <1>3 DEF TaskSound, OnChannel
  <2>2. rows[t][d]["PENDING"] > 0
    BY <1>1, <1>2, <2>1, HasRow
  <2>3. rows' = [rows EXCEPT ![t][d]["PENDING"] = @ - 1, ![t][d][s] = @ + 1]
    BY <1>2, <1>3, <1>4 DEF Mark
  <2> QED
    BY <1>1, <2>2, <2>3, RowMarked
<1>6. PICK step \in {"create", "retry", "ack"} :
        \E left \in {work[w].todo, work[w].todo \ {d}} :
          /\ Becomes(w, left, step, "none")
          /\ step = "create" => left # {} /\ left = work[w].todo \ {d}
          /\ step = "ack" => work[w].todo = {d}
          /\ step = "ack" /\ t \in SendTasks => s = "SENT"
          /\ step = "retry" => s = "FAILED"
  <2>1. AfterMark(w, s)
    BY <1>4 DEF Mark
  <2>2. CASE t \in SendTasks /\ s = "FAILED"
    <3>1. Goto(w, "retry", "none")
      BY <1>2, <2>1, <2>2 DEF AfterMark
    <3>2. Becomes(w, work[w].todo, "retry", "none")
      BY <1>1, <1>2, <3>1, Goes DEF Steps, Results
    <3> QED
      BY <2>2, <3>2
  <2>3. CASE ~(t \in SendTasks /\ s = "FAILED")
    <3>1. NextChannel(w)
      BY <1>2, <2>1, <2>3 DEF AfterMark
    <3> DEFINE rest == work[w].todo \ {d}
               step == IF rest = {} THEN "ack" ELSE "create"
    <3>2. Becomes(w, rest, step, "none")
      BY <1>1, <1>2, <1>3, <3>1, GoesOn
    <3>3. rest = {} => work[w].todo = {d}
      BY <1>3
    <3> HIDE DEF rest
    <3> QED
      BY <2>3, <3>2, <3>3 DEF rest
  <2> QED
    BY <2>2, <2>3
<1>7. PICK left \in {work[w].todo, work[w].todo \ {d}} :
        /\ Becomes(w, left, step, "none")
        /\ step = "create" => left # {} /\ left = work[w].todo \ {d}
        /\ step = "ack" => work[w].todo = {d}
        /\ step = "ack" /\ t \in SendTasks => s = "SENT"
        /\ step = "retry" => s = "FAILED"
  BY <1>6
<1>8. /\ queue' = queue /\ accepted' = accepted
      /\ outcome' = outcome /\ crashes' = crashes
  BY <1>4 DEF Mark
<1>9. LogTypeOK' /\ Counts(t)'
  <2>1. LogTypeOK'
    BY <1>1, <1>5, <1>7, <1>8 DEF LogTypeOK, Becomes
  <2> QED
    BY <2>1, NumbersNext
<1>10. Local(w, t)
  BY <1>1, <1>2, <1>5, <1>7, <1>8 DEF Local, On, Becomes, LogTypeOK, LogGiven
<1>11. Attempts(t)' = Attempts(t) /\ Budget' = Budget
  BY <1>8 DEF Attempts, Budget
<1>12. ASSUME NEW c \in Channels PROVE Balanced(w, t, c)
  <2>1. RowsBy(w, t, c)' <= RowsBy(w, t, c)
    <3>1. Ahead(w, c)' => Ahead(w, c)
      BY <1>1, <1>3, <1>7 DEF Ahead, Becomes
    <3> QED
      BY <1>1, <1>2, <1>7, <3>1, FewerRows DEF Becomes
  <2>2. CASE c = d
    <3>1. accepted'[t][c] = accepted[t][c]
      BY <1>8
    <3>2. /\ OpenRows(t, c)[w] = 1 /\ OpenRows(t, c)'[w] = 0
          /\ Calling(t, c)[w] = 0 /\ Calling(t, c)'[w] = 0
      BY <1>1, <1>2, <1>3, <1>7, <2>2
      DEF OpenRows, Calling, OnChannel, Becomes
    <3>3. /\ Taken(t, c)'[w] = 0
          /\ s = "SENT" => Taken(t, c)[w] = 1
      BY <1>1, <1>2, <1>3, <1>4, <1>7, <2>2 DEF Taken, OnChannel, Becomes
    <3> QED
      BY <1>2, <1>5, <1>9, <1>11, <2>1, <2>2, <3>1, <3>2, <3>3, Typed
      DEF Balanced
  <2>3. CASE c # d
    <3>1. /\ rows'[t][c] = rows[t][c] /\ accepted'[t][c] = accepted[t][c]
          /\ work'[w].step \notin {"call", "mark"}
      BY <1>5, <1>7, <1>8, <2>3 DEF Becomes
    <3> QED
      BY <1>2, <1>9, <1>11, <2>1, <3>1, Typed, QuietBalance
  <2> QED
    BY <2>2, <2>3
<1>13. ASSUME t \in SendTasks PROVE SendBalanced(w, t) /\ SendStep(w, t)
  <2>1. work[w].todo \subseteq {"SMS"}
    BY <1>2, <1>13 DEF TaskSound, SendSound
  <2>2. d = "SMS"
    BY <1>3, <2>1
  <2>3. Busy(t)'[w] <= 1 /\ Busy(t)[w] = 1
    BY <1>1, <1>2 DEF Busy
  <2>4. s = "SENT" => Busy(t)'[w] = 0
    <3>1. s = "SENT" => step = "ack"
      BY <1>7, <2>1, <2>2
    <3> QED
      BY <1>7, <3>1 DEF Busy, Becomes
  <2>5. SendBalanced(w, t)
    BY <1>2, <1>5, <1>8, <1>9, <2>2, <2>3, <2>4, TypedSend DEF SendBalanced
  <2>6. SendStep(w, t)
    BY <1>2, <1>5, <1>7, <1>8, <1>9, <1>13, <2>1, <2>2, TypedSend
    DEF SendStep, Becomes, Resolved
  <2> QED
    BY <2>5, <2>6
<1> QED
  BY <1>9, <1>10, <1>12, <1>13, WorkerKeeps

(* A message more in the queue: f and g are the queue before and after, or  *)
(* after and before.                                                        *)
LEMMA OneMore ==
  ASSUME NEW D, IsFiniteSet(D), NEW f \in [D -> Nat], NEW g \in [D -> Nat],
         NEW r \in D, NEW n \in Nat, g[r] = f[r] + n,
         \A x \in D \ {r} : g[x] = f[x]
  PROVE  Total(g) = Total(f) + n /\ Total(f) \in Nat
<1>1. Total(g) + f[r] = Total(f) + g[r] /\ Total(f) \in Nat /\ Total(g) \in Nat
  BY TotalMoves
<1>2. f[r] \in Nat
  OBVIOUS
<1> QED
  BY <1>1, <1>2

LEMMA OneTerm ==
  ASSUME NEW m \in Nat, NEW n \in Nat, NEW k \in Nat, n = m + 1
  PROVE  n * k = m * k + k
BY Product

LEMMA QueueMoves ==
  ASSUME LogGiven, NEW t \in Tasks, NEW r \in Retries, Counts(t), Counts(t)',
         \A x \in Retries \ {r} : queue'[t][x] = queue[t][x]
  PROVE  /\ queue'[t][r] = queue[t][r] + 1 =>
              /\ Total(queue'[t]) = Total(queue[t]) + 1
              /\ Total(Attempts(t)') = Total(Attempts(t)) + (MaxRetries + 1 - r)
         /\ queue[t][r] = queue'[t][r] + 1 =>
              /\ Total(queue[t]) = Total(queue'[t]) + 1
              /\ Total(Attempts(t)) = Total(Attempts(t)') + (MaxRetries + 1 - r)
<1>1. /\ queue[t] \in [Retries -> Nat] /\ queue'[t] \in [Retries -> Nat]
      /\ Attempts(t) \in [Retries -> Nat]
      /\ Attempts(t)' \in [Retries -> Nat]
      /\ IsFiniteSet(Retries)
  BY Constants DEF Counts
<1>2. PICK k \in Nat : k = MaxRetries + 1 - r
  <2>1. MaxRetries \in Nat /\ r \in Nat /\ MaxRetries - r \in Nat
    BY Constants
  <2>2. MaxRetries + 1 - r \in Nat
    BY <2>1
  <2> QED
    BY <2>2
<1>3. \A x \in Retries \ {r} : Attempts(t)'[x] = Attempts(t)[x]
  BY DEF Attempts
<1>4. ASSUME queue'[t][r] = queue[t][r] + 1
      PROVE  Attempts(t)'[r] = Attempts(t)[r] + k
  <2>1. queue[t][r] \in Nat /\ queue'[t][r] \in Nat
    BY <1>1
  <2>2. queue'[t][r] * k = queue[t][r] * k + k
    BY <1>4, <2>1, OneTerm
  <2> QED
    BY <1>2, <2>2 DEF Attempts
<1>5. ASSUME queue[t][r] = queue'[t][r] + 1
      PROVE  Attempts(t)[r] = Attempts(t)'[r] + k
  <2>1. queue[t][r] \in Nat /\ queue'[t][r] \in Nat
    BY <1>1
  <2>2. queue[t][r] * k = queue'[t][r] * k + k
    BY <1>5, <2>1, OneTerm
  <2> QED
    BY <1>2, <2>2 DEF Attempts
<1>6. ASSUME queue'[t][r] = queue[t][r] + 1
      PROVE  /\ Total(queue'[t]) = Total(queue[t]) + 1
             /\ Total(Attempts(t)') = Total(Attempts(t)) + k
  <2>1. Total(queue'[t]) = Total(queue[t]) + 1
    <3>1. /\ Total(queue'[t]) + queue[t][r] = Total(queue[t]) + queue'[t][r]
          /\ Total(queue[t]) \in Nat /\ Total(queue'[t]) \in Nat
      BY <1>1, TotalMoves
    <3>2. queue[t][r] \in Nat
      BY <1>1
    <3> QED
      BY <1>6, <3>1, <3>2
  <2>2. Total(Attempts(t)') = Total(Attempts(t)) + k
    BY <1>1, <1>3, <1>4, <1>6, OneMore
  <2> QED
    BY <2>1, <2>2
<1>7. ASSUME queue[t][r] = queue'[t][r] + 1
      PROVE  /\ Total(queue[t]) = Total(queue'[t]) + 1
             /\ Total(Attempts(t)) = Total(Attempts(t)') + k
  <2>1. Total(queue[t]) = Total(queue'[t]) + 1
    <3>1. /\ Total(queue'[t]) + queue[t][r] = Total(queue[t]) + queue'[t][r]
          /\ Total(queue[t]) \in Nat /\ Total(queue'[t]) \in Nat
      BY <1>1, TotalMoves
    <3>2. queue'[t][r] \in Nat
      BY <1>1
    <3> QED
      BY <1>7, <3>1, <3>2
  <2>2. Total(Attempts(t)) = Total(Attempts(t)') + k
    BY <1>1, <1>3, <1>5, <1>7, OneMore
  <2> QED
    BY <2>1, <2>2
<1> QED
  BY <1>2, <1>6, <1>7

(* The worker neither writes a row nor goes to the provider: it gives up    *)
(* its task, queues the next attempt, is lost, or acknowledges.             *)
LEMMA QuietKeeps ==
  ASSUME LogGiven, LogsSound, LogTypeOK', NEW w \in Workers, NEW t \in Tasks,
         Local(w, t), rows' = rows, accepted' = accepted,
         On(w, t)' => work'[w].step \notin {"call", "mark"},
         \A c \in Channels :
           Total(Attempts(t)') + RowsBy(w, t, c)' + Budget
             <= Total(Attempts(t)) + RowsBy(w, t, c) + Budget',
         Total(queue'[t]) + Busy(t)'[w] + crashes
           <= Total(queue[t]) + Busy(t)[w] + crashes',
         t \in SendTasks =>
           /\ outcome'[t] = "SUCCESS" =>
                outcome[t] = "SUCCESS" \/ Resolved(t)
           /\ On(w, t)' => /\ work'[w].todo \subseteq {"SMS"}
                           /\ work'[w].step = "ack" /\ work'[w].result = "none" =>
                                Resolved(t)
  PROVE  LogsSound'
<1>1. Counts(t) /\ Counts(t)'
  BY Numbers, NumbersNext DEF LogsSound
<1>2. ASSUME NEW c \in Channels PROVE Balanced(w, t, c)
  <2>1. /\ rows'[t][c] = rows[t][c] /\ accepted'[t][c] = accepted[t][c]
        /\ OnChannel(w, t, c)' => work'[w].step \notin {"call", "mark"}
    BY DEF OnChannel
  <2> QED
    BY <1>1, <2>1, QuietBalance
<1>3. Sent(t, "SMS")' = Sent(t, "SMS")
  BY DEF Sent
<1>4. SendBalanced(w, t)
  BY <1>1, <1>3, TypedSend DEF SendBalanced
<1>5. t \in SendTasks => SendStep(w, t)
  BY <1>1, <1>3, TypedSend DEF SendStep, Resolved
<1> QED
  BY <1>2, <1>4, <1>5, WorkerKeeps

(* The worker goes on without a row.                                        *)
LEMMA SkipKeeps ==
  ASSUME LogGiven, LogsSound, NEW w \in Workers, NoTemplate(w)
  PROVE  LogsSound'
<1>1. LogTypeOK /\ work[w] # NoTask /\ work[w].step = "create"
  BY DEF NoTemplate, At, LogsSound
<1>2. PICK t \in Tasks :
        /\ On(w, t) /\ t = work[w].task
        /\ TaskSound(t) /\ Counts(t) /\ outcome[t] # "none"
        /\ work[w] \in Work
  BY <1>1, HasTask
<1>3. PICK d \in Channels : d = Channel(w) /\ d \in work[w].todo
  BY <1>1, <1>2 DEF Channel, Channels, TaskSound, Work
<1> DEFINE rest == work[w].todo \ {d}
           step == IF rest = {} THEN "ack" ELSE "create"
<1>4. Becomes(w, rest, step, "none") /\ ~HasTemplate(t, d)
  BY <1>1, <1>2, <1>3, GoesOn DEF NoTemplate
<1>5. /\ queue' = queue /\ rows' = rows /\ accepted' = accepted
      /\ outcome' = outcome /\ crashes' = crashes
  BY DEF NoTemplate
<1>6. LogTypeOK' /\ Counts(t)'
  <2>1. LogTypeOK'
    BY <1>1, <1>4, <1>5 DEF LogTypeOK, Becomes
  <2> QED
    BY <2>1, NumbersNext
<1>7. Local(w, t)
  BY <1>1, <1>2, <1>4, <1>5 DEF Local, On, Becomes, LogTypeOK, LogGiven
<1>8. ASSUME NEW c \in Channels
      PROVE  Total(Attempts(t)') + RowsBy(w, t, c)' + Budget
               <= Total(Attempts(t)) + RowsBy(w, t, c) + Budget'
  <2>1. Ahead(w, c)' => Ahead(w, c)
    BY <1>1, <1>4 DEF Ahead, Becomes
  <2>2. RowsBy(w, t, c)' <= RowsBy(w, t, c)
    BY <1>1, <1>2, <1>4, <2>1, FewerRows DEF Becomes
  <2>3. Attempts(t)' = Attempts(t) /\ Budget' = Budget
    BY <1>5 DEF Attempts, Budget
  <2> QED
    BY <1>2, <1>6, <2>2, <2>3, Typed
<1>9. Total(queue'[t]) + Busy(t)'[w] + crashes
        <= Total(queue[t]) + Busy(t)[w] + crashes'
  <2>1. Busy(t)[w] = 1 /\ Busy(t)'[w] <= 1
    BY <1>1, <1>2 DEF Busy
  <2> QED
    BY <1>2, <1>5, <1>6, <2>1, TypedSend
<1>10. ASSUME t \in SendTasks
       PROVE  work'[w].todo \subseteq {"SMS"} /\ Resolved(t)
  <2>1. work[w].todo \subseteq {"SMS"}
    BY <1>2, <1>10 DEF TaskSound, SendSound
  <2>2. d = "SMS"
    BY <1>3, <2>1
  <2> QED
    BY <1>4, <2>1, <2>2 DEF Resolved, Becomes
<1>11. work'[w].step \notin {"call", "mark"}
  BY <1>4 DEF Becomes
<1>12. t \in SendTasks /\ outcome'[t] = "SUCCESS" => outcome[t] = "SUCCESS"
  BY <1>5
<1> HIDE DEF rest, step
<1> QED
  BY <1>5, <1>6, <1>7, <1>8, <1>9, <1>10, <1>11, <1>12, QuietKeeps

LEMMA RaisesKeeps ==
  ASSUME LogGiven, LogsSound, NEW w \in Workers, ServiceRaises(w)
  PROVE  LogsSound'
<1>1. /\ LogTypeOK /\ work[w] # NoTask
      /\ work[w].step \in {"create", "mark"}
  BY DEF ServiceRaises, At, LogsSound
<1>2. PICK t \in Tasks :
        /\ On(w, t) /\ t = work[w].task
        /\ TaskSound(t) /\ Counts(t) /\ outcome[t] # "none"
        /\ work[w] \in Work
  BY <1>1, HasTask
<1>3. Becomes(w, work[w].todo, "retry", "none")
  BY <1>1, <1>2, Goes DEF ServiceRaises, Steps, Results
<1>4. /\ queue' = queue /\ rows' = rows /\ accepted' = accepted
      /\ outcome' = outcome /\ crashes' = crashes
  BY DEF ServiceRaises
<1>5. LogTypeOK' /\ Counts(t)'
  <2>1. LogTypeOK'
    BY <1>1, <1>3, <1>4 DEF LogTypeOK, Becomes
  <2> QED
    BY <2>1, NumbersNext
<1>6. Local(w, t)
  BY <1>1, <1>2, <1>3, <1>4 DEF Local, On, Becomes, LogTypeOK, LogGiven
<1>7. ASSUME NEW c \in Channels
      PROVE  Total(Attempts(t)') + RowsBy(w, t, c)' + Budget
               <= Total(Attempts(t)) + RowsBy(w, t, c) + Budget'
  <2>1. ~Ahead(w, c)'
    BY <1>3 DEF Ahead, Becomes
  <2>2. RowsBy(w, t, c)' <= RowsBy(w, t, c)
    BY <1>1, <1>2, <1>3, <2>1, FewerRows DEF Becomes
  <2>3. Attempts(t)' = Attempts(t) /\ Budget' = Budget
    BY <1>4 DEF Attempts, Budget
  <2> QED
    BY <1>2, <1>5, <2>2, <2>3, Typed
<1>8. Total(queue'[t]) + Busy(t)'[w] + crashes
        <= Total(queue[t]) + Busy(t)[w] + crashes'
  <2>1. Busy(t)[w] = 1 /\ Busy(t)'[w] <= 1
    BY <1>1, <1>2 DEF Busy
  <2> QED
    BY <1>2, <1>4, <1>5, <2>1, TypedSend
<1>9. ASSUME t \in SendTasks
      PROVE  work'[w].todo \subseteq {"SMS"} /\ work'[w].step = "retry"
  BY <1>2, <1>3, <1>9 DEF TaskSound, SendSound, Becomes
<1>10. work'[w].step = "retry"
  BY <1>3 DEF Becomes
<1> QED
  BY <1>4, <1>5, <1>6, <1>7, <1>8, <1>9, <1>10, QuietKeeps

LEMMA RetryKeeps ==
  ASSUME LogGiven, LogsSound, NEW w \in Workers, Retry(w)
  PROVE  LogsSound'
<1>1. /\ LogTypeOK /\ work[w] # NoTask
      /\ work[w].step = "retry"
  BY DEF Retry, At, LogsSound
<1>2. PICK t \in Tasks :
        /\ On(w, t) /\ t = work[w].task
        /\ TaskSound(t) /\ Counts(t) /\ outcome[t] # "none"
        /\ work[w] \in Work
  BY <1>1, HasTask
<1>3. PICK result \in {"retried", "failure"} :
        Becomes(w, work[w].todo, "ack", result)
  <2>1. PICK result \in {"retried", "failure"} : Goto(w, "ack", result)
    BY DEF Retry
  <2> QED
    BY <1>1, <1>2, <2>1, Goes DEF Steps, Results
<1>4. /\ rows' = rows /\ accepted' = accepted
      /\ outcome' = outcome /\ crashes' = crashes
  BY DEF Retry
<1>5. PICK r \in Retries : r = work[w].retries
  BY <1>2 DEF Work
<1>6. /\ MaxRetries \in Nat /\ r \in Nat /\ MaxRetries - r \in Nat
      /\ r < MaxRetries => r + 1 \in Retries
  BY Constants
<1>7. /\ queue' \in [Tasks -> [Retries -> Nat]]
      /\ \A u \in Tasks \ {t} : queue'[u] = queue[u]
      /\ \/ queue'[t] = queue[t]
         \/ /\ r + 1 \in Retries
            /\ queue'[t][r + 1] = queue[t][r + 1] + 1
            /\ \A x \in Retries \ {r + 1} : queue'[t][x] = queue[t][x]
  <2>1. queue \in [Tasks -> [Retries -> Nat]]
    BY <1>1 DEF LogTypeOK
  <2>2. CASE r < MaxRetries
    <3>1. queue' = [queue EXCEPT ![t][r + 1] = @ + 1]
      BY <1>2, <1>5, <2>2 DEF Retry
    <3>2. PICK q \in Retries : q = r + 1
      BY <1>6, <2>2
    <3>3. queue[t][q] \in Nat /\ queue[t][q] + 1 \in Nat
      <4>1. queue[t] \in [Retries -> Nat]
        BY <2>1
      <4>2. queue[t][q] \in Nat
        BY <3>2, <4>1
      <4> QED
        BY <4>2
    <3>4. /\ queue' \in [Tasks -> [Retries -> Nat]]
          /\ \A u \in Tasks \ {t} : queue'[u] = queue[u]
          /\ queue'[t][q] = queue[t][q] + 1
          /\ \A x \in Retries \ {q} : queue'[t][x] = queue[t][x]
      BY <2>1, <3>1, <3>2, <3>3
    <3> QED
      BY <3>2, <3>4
  <2>3. CASE ~(r < MaxRetries)
    BY <1>5, <2>1, <2>3 DEF Retry
  <2> QED
    BY <2>2, <2>3
<1>8. LogTypeOK' /\ Counts(t)'
  <2>1. LogTypeOK'
    BY <1>1, <1>3, <1>4, <1>7 DEF LogTypeOK, Becomes
  <2> QED
    BY <2>1, NumbersNext
<1>9. Local(w, t)
  BY <1>1, <1>2, <1>3, <1>4, <1>7 DEF Local, On, Becomes, LogTypeOK, LogGiven
<1>10. /\ Total(queue'[t]) <= Total(queue[t]) + 1
       /\ Total(Attempts(t)') <= Total(Attempts(t)) + (MaxRetries - r)
  <2>1. CASE queue'[t] = queue[t]
    <3>1. Attempts(t)' = Attempts(t)
      BY <2>1 DEF Attempts
    <3>2. Total(queue[t]) \in Nat /\ Total(Attempts(t)) \in Nat
      BY Constants, <1>2, TotalType DEF Counts
    <3> QED
      BY <1>5, <1>6, <2>1, <3>1, <3>2
  <2>2. CASE /\ r + 1 \in Retries
             /\ queue'[t][r + 1] = queue[t][r + 1] + 1
             /\ \A x \in Retries \ {r + 1} : queue'[t][x] = queue[t][x]
    <3>1. PICK q \in Retries : q = r + 1
      BY <2>2
    <3>2. /\ Total(queue'[t]) = Total(queue[t]) + 1
          /\ Total(Attempts(t)') = Total(Attempts(t)) + (MaxRetries + 1 - q)
      BY <1>2, <1>8, <2>2, <3>1, QueueMoves
    <3>3. Total(queue[t]) \in Nat /\ Total(Attempts(t)) \in Nat
      BY Constants, <1>2, TotalType DEF Counts
    <3> QED
      BY <1>5, <1>6, <3>1, <3>2, <3>3
  <2> QED
    BY <1>7, <2>1, <2>2
<1>11. ASSUME NEW c \in Channels
      PROVE  Total(Attempts(t)') + RowsBy(w, t, c)' + Budget
               <= Total(Attempts(t)) + RowsBy(w, t, c) + Budget'
  <2>1. RowsBy(w, t, c) = MaxRetries - r
    BY <1>1, <1>2, <1>5, <1>6 DEF RowsBy, Ahead
  <2>2. RowsBy(w, t, c)' = 0
    BY <1>3 DEF RowsBy, Becomes
  <2>3. Budget' = Budget
    BY <1>4 DEF Budget
  <2> QED
    BY <1>2, <1>5, <1>6, <1>8, <1>10, <2>1, <2>2, <2>3, Typed
<1>12. Total(queue'[t]) + Busy(t)'[w] + crashes
        <= Total(queue[t]) + Busy(t)[w] + crashes'
  <2>1. Busy(t)[w] = 1 /\ Busy(t)'[w] = 0
    BY <1>1, <1>2, <1>3 DEF Busy, Becomes
  <2> QED
    BY <1>2, <1>4, <1>8, <1>10, <2>1, TypedSend
<1>13. ASSUME t \in SendTasks PROVE work'[w].todo \subseteq {"SMS"}
  BY <1>2, <1>3, <1>13 DEF TaskSound, SendSound, Becomes
<1>14. work'[w].step = "ack" /\ work'[w].result # "none"
  BY <1>3 DEF Becomes
<1> QED
  BY <1>4, <1>8, <1>9, <1>11, <1>12, <1>13, <1>14, QuietKeeps

(* The worker is done with its task.                                        *)
LEMMA DoneKeeps ==
  ASSUME LogGiven, LogsSound, NEW w \in Workers, Ack(w) \/ Kill(w)
  PROVE  LogsSound'
<1>1. LogTypeOK /\ work[w] # NoTask /\ work' = [work EXCEPT ![w] = NoTask]
  BY DEF Ack, Kill, At, LogsSound
<1>2. PICK t \in Tasks :
        /\ On(w, t) /\ t = work[w].task
        /\ TaskSound(t) /\ Counts(t) /\ outcome[t] # "none"
        /\ work[w] \in Work
  BY <1>1, HasTask
<1>3. /\ work' \in [Workers -> Work \cup {NoTask}] /\ work'[w] = NoTask
      /\ \A v \in Workers \ {w} : work'[v] = work[v]
  BY <1>1, Rests
<1>4. /\ queue' = queue /\ rows' = rows /\ accepted' = accepted
      /\ crashes' = crashes
  BY DEF Ack, Kill
<1>5. PICK result \in {outcome[t], "SUCCESS", "FAILURE"} :
        /\ outcome' = [outcome EXCEPT ![t] = result]
        /\ result = "SUCCESS" =>
             \/ outcome[t] = "SUCCESS"
             \/ work[w].step = "ack" /\ work[w].result = "none"
  <2>1. outcome = [outcome EXCEPT ![t] = outcome[t]]
    BY <1>1 DEF LogTypeOK
  <2>2. CASE Kill(w)
    BY <1>2, <2>2 DEF Kill
  <2>3. CASE Ack(w)
    <3>1. CASE work[w].result = "none"
      BY <1>2, <2>3, <3>1 DEF Ack, At
    <3>2. CASE work[w].result = "failure"
      BY <1>2, <2>3, <3>2 DEF Ack, At
    <3>3. CASE work[w].result \notin {"none", "failure"}
      BY <1>2, <2>1, <2>3, <3>3 DEF Ack, At
    <3> QED
      BY <3>1, <3>2, <3>3
  <2> QED
    BY <2>2, <2>3
<1>6. /\ outcome' \in [Tasks -> {"none", "queued", "SUCCESS", "FAILURE"}]
      /\ outcome'[t] = result /\ result # "none"
      /\ \A u \in Tasks \ {t} : outcome'[u] = outcome[u]
  BY <1>1, <1>2, <1>5 DEF LogTypeOK
<1>7. LogTypeOK' /\ Counts(t)'
  <2>1. LogTypeOK'
    BY <1>1, <1>3, <1>4, <1>6 DEF LogTypeOK
  <2> QED
    BY <2>1, NumbersNext
<1>8. ~On(w, t)'
  BY <1>3 DEF On
<1>9. Local(w, t)
  BY <1>1, <1>2, <1>3, <1>4, <1>6, <1>8 DEF Local, LogTypeOK, LogGiven
<1>10. ASSUME NEW c \in Channels
       PROVE  Total(Attempts(t)') + RowsBy(w, t, c)' + Budget
                <= Total(Attempts(t)) + RowsBy(w, t, c) + Budget'
  <2>1. RowsBy(w, t, c)' = 0
    BY <1>8 DEF RowsBy
  <2>2. Attempts(t)' = Attempts(t) /\ Budget' = Budget
    BY <1>4 DEF Attempts, Budget
  <2> QED
    BY <1>2, <1>7, <2>1, <2>2, Typed
<1>11. Total(queue'[t]) + Busy(t)'[w] + crashes
         <= Total(queue[t]) + Busy(t)[w] + crashes'
  <2>1. Busy(t)'[w] = 0
    BY <1>8 DEF Busy
  <2> QED
    BY <1>2, <1>4, <1>7, <2>1, TypedSend
<1>12. ASSUME t \in SendTasks, outcome'[t] = "SUCCESS"
       PROVE  outcome[t] = "SUCCESS" \/ Resolved(t)
  BY <1>2, <1>5, <1>6, <1>12 DEF TaskSound, SendSound
<1> QED
  BY <1>4, <1>7, <1>8, <1>9, <1>10, <1>11, <1>12, QuietKeeps

LEMMA CrashKeeps ==
  ASSUME LogGiven, LogsSound, NEW w \in Workers, Crash(w)
  PROVE  LogsSound'
<1>1. LogTypeOK /\ work[w] # NoTask /\ work' = [work EXCEPT ![w] = NoTask]
  BY DEF Crash, LogsSound
<1>2. PICK t \in Tasks :
        /\ On(w, t) /\ t = work[w].task
        /\ TaskSound(t) /\ Counts(t) /\ outcome[t] # "none"
        /\ work[w] \in Work
  BY <1>1, HasTask
<1>3. /\ work' \in [Workers -> Work \cup {NoTask}] /\ work'[w] = NoTask
      /\ \A v \in Workers \ {w} : work'[v] = work[v]
  BY <1>1, Rests
<1>4. /\ rows' = rows /\ accepted' = accepted /\ outcome' = outcome
      /\ crashes' = crashes + 1 /\ crashes \in Nat
      /\ crashes' \in 0..MaxCrashes
  BY <1>1 DEF Crash, LogTypeOK, LogGiven
<1>5. PICK r \in Retries : r = work[w].retries
  BY <1>2 DEF Work
<1>6. /\ queue' \in [Tasks -> [Retries -> Nat]]
      /\ \A u \in Tasks \ {t} : queue'[u] = queue[u]
      /\ queue'[t][r] = queue[t][r] + 1
      /\ \A x \in Retries \ {r} : queue'[t][x] = queue[t][x]
  <2>1. queue \in [Tasks -> [Retries -> Nat]]
    BY <1>1 DEF LogTypeOK
  <2>2. queue[t][r] + 1 \in Nat
    <3>1. queue[t] \in [Retries -> Nat]
      BY <2>1
    <3>2. queue[t][r] \in Nat
      BY <3>1
    <3> QED
      BY <3>2
  <2>3. queue' = [queue EXCEPT ![t][r] = @ + 1]
    BY <1>2, <1>5 DEF Crash
  <2> QED
    BY <2>1, <2>2, <2>3
<1>7. LogTypeOK' /\ Counts(t)'
  <2>1. LogTypeOK'
    BY <1>1, <1>3, <1>4, <1>6 DEF LogTypeOK
  <2> QED
    BY <2>1, NumbersNext
<1>8. ~On(w, t)'
  BY <1>3 DEF On
<1>9. Local(w, t)
  BY <1>1, <1>2, <1>3, <1>4, <1>6, <1>8 DEF Local
<1>10. /\ Total(queue'[t]) = Total(queue[t]) + 1
       /\ Total(Attempts(t)') = Total(Attempts(t)) + (MaxRetries + 1 - r)
  BY <1>2, <1>6, <1>7, QueueMoves
<1>11. MaxRetries \in Nat /\ r \in Nat
  BY Constants
<1>12. ASSUME NEW c \in Channels
       PROVE  Total(Attempts(t)') + RowsBy(w, t, c)' + Budget
                <= Total(Attempts(t)) + RowsBy(w, t, c) + Budget'
  <2>1. RowsBy(w, t, c)' = 0
    BY <1>8 DEF RowsBy
  <2>2. Budget' = Budget + MaxRetries + 1
    BY <1>2, <1>4, <1>7, BudgetGrows DEF Counts
  <2> QED
    BY <1>2, <1>7, <1>10, <1>11, <2>1, <2>2, Typed
<1>13. Total(queue'[t]) + Busy(t)'[w] + crashes
         <= Total(queue[t]) + Busy(t)[w] + crashes'
  <2>1. Busy(t)'[w] = 0
    BY <1>8 DEF Busy
  <2> QED
    BY <1>2, <1>4, <1>7, <1>10, <2>1, TypedSend
<1> QED
  BY <1>4, <1>7, <1>8, <1>9, <1>12, <1>13, QuietKeeps

LEMMA TakeKeeps ==
  ASSUME LogGiven, LogsSound, NEW w \in Workers, NEW t \in Tasks,
         NEW r \in Retries, Take(w, t, r)
  PROVE  LogsSound'
<1>1. /\ LogTypeOK /\ TaskSound(t) /\ Counts(t)
      /\ work[w] = NoTask /\ queue[t][r] > 0
  BY Numbers DEF Take, LogsSound
<1>2. PICK y \in Work :
        /\ y = [task |-> t, retries |-> r, todo |-> ChannelsOf(t),
                step |-> "create", result |-> "none"]
        /\ y.task = t /\ y.retries = r /\ y.todo = ChannelsOf(t)
        /\ y.step = "create"
  <2>1. ChannelsOf(t) \in SUBSET Channels
    BY DEF ChannelsOf, Channels
  <2> DEFINE x == [task |-> t, retries |-> r, todo |-> ChannelsOf(t),
                   step |-> "create", result |-> "none"]
  <2>2. x \in Work
    BY <2>1 DEF Work, Steps, Results
  <2>3. /\ x.task = t /\ x.retries = r /\ x.todo = ChannelsOf(t)
        /\ x.step = "create"
    OBVIOUS
  <2> QED
    BY <2>2, <2>3
<1>3. /\ work' \in [Workers -> Work \cup {NoTask}] /\ work'[w] = y
      /\ \A v \in Workers \ {w} : work'[v] = work[v]
  BY <1>1, <1>2 DEF Take, LogTypeOK
<1>4. /\ rows' = rows /\ accepted' = accepted /\ outcome' = outcome
      /\ crashes' = crashes
  BY DEF Take
<1>5. /\ queue' \in [Tasks -> [Retries -> Nat]]
      /\ \A u \in Tasks \ {t} : queue'[u] = queue[u]
      /\ queue[t][r] = queue'[t][r] + 1
      /\ \A x \in Retries \ {r} : queue'[t][x] = queue[t][x]
  <2>1. queue \in [Tasks -> [Retries -> Nat]]
    BY <1>1 DEF LogTypeOK
  <2>2. queue[t][r] \in Nat /\ queue[t][r] - 1 \in Nat
    <3>1. queue[t] \in [Retries -> Nat]
      BY <2>1
    <3>2. queue[t][r] \in Nat
      BY <3>1
    <3> QED
      BY <1>1, <3>2
  <2>3. queue' = [queue EXCEPT ![t][r] = @ - 1]
    BY DEF Take
  <2> QED
    BY <2>1, <2>2, <2>3
<1>6. LogTypeOK' /\ Counts(t)'
  <2>1. LogTypeOK'
    BY <1>1, <1>3, <1>4, <1>5 DEF LogTypeOK
  <2> QED
    BY <2>1, NumbersNext
<1>7. outcome[t] # "none"
  BY <1>1 DEF TaskSound
<1>8. Local(w, t)
  <2>1. On(w, t)' \/ work'[w] = NoTask
    BY <1>2, <1>3 DEF On
  <2>2. work'[w].todo # {}
    BY <1>2, <1>3 DEF ChannelsOf, Channels
  <2> QED
    BY <1>1, <1>3, <1>4, <1>5, <1>7, <2>1, <2>2 DEF Local, LogTypeOK, LogGiven
<1>9. /\ Total(queue[t]) = Total(queue'[t]) + 1
      /\ Total(Attempts(t)) = Total(Attempts(t)') + (MaxRetries + 1 - r)
  BY <1>1, <1>5, <1>6, QueueMoves
<1>10. MaxRetries \in Nat /\ r \in Nat /\ MaxRetries - r \in Nat
  BY Constants
<1>11. ~On(w, t)
  BY <1>1 DEF On
<1>12. ASSUME NEW c \in Channels
       PROVE  Total(Attempts(t)') + RowsBy(w, t, c)' + Budget
                <= Total(Attempts(t)) + RowsBy(w, t, c) + Budget'
  <2>1. RowsBy(w, t, c)' <= MaxRetries - r + 1
    BY <1>2, <1>3, <1>10 DEF RowsBy
  <2>2. RowsBy(w, t, c) = 0
    BY <1>11 DEF RowsBy
  <2>3. Budget' = Budget
    BY <1>4 DEF Budget
  <2> QED
    BY <1>1, <1>6, <1>9, <1>10, <2>1, <2>2, <2>3, Typed
<1>13. Total(queue'[t]) + Busy(t)'[w] + crashes
         <= Total(queue[t]) + Busy(t)[w] + crashes'
  <2>1. Busy(t)[w] = 0 /\ Busy(t)'[w] <= 1
    BY <1>11 DEF Busy
  <2> QED
    BY <1>1, <1>4, <1>6, <1>9, <2>1, TypedSend
<1>14. work'[w].step = "create"
  BY <1>2, <1>3
<1>15. t \in SendTasks => work'[w].todo \subseteq {"SMS"}
  BY <1>2, <1>3 DEF ChannelsOf
<1> QED
  BY <1>4, <1>6, <1>8, <1>12, <1>13, <1>14, <1>15, QuietKeeps

LEMMA DispatchKeeps ==
  ASSUME LogGiven, LogsSound, NEW t \in Tasks, Dispatch(t)
  PROVE  LogsSound'
<1>1. /\ LogTypeOK /\ TaskSound(t) /\ Counts(t)
      /\ outcome[t] = "none"
  BY Numbers DEF Dispatch, LogsSound
<1>2. /\ queue[t] = [r \in Retries |-> 0]
      /\ \A w \in Workers : ~On(w, t)
      /\ \A c \in Channels : RowsOf(t, c) = 0
  BY <1>1 DEF TaskSound
<1>3. /\ rows' = rows /\ accepted' = accepted /\ work' = work
      /\ crashes' = crashes
  BY DEF Dispatch
<1>4. 0 \in Retries /\ MaxRetries \in Nat
  BY Constants
<1>5. /\ queue' \in [Tasks -> [Retries -> Nat]]
      /\ \A u \in Tasks \ {t} : queue'[u] = queue[u]
      /\ queue'[t][0] = queue[t][0] + 1
      /\ \A x \in Retries \ {0} : queue'[t][x] = queue[t][x]
  <2>1. queue \in [Tasks -> [Retries -> Nat]]
    BY <1>1 DEF LogTypeOK
  <2>2. queue[t][0] \in Nat /\ queue[t][0] + 1 \in Nat
    BY <1>2, <1>4
  <2>3. queue' = [queue EXCEPT ![t][0] = @ + 1]
    BY DEF Dispatch
  <2> QED
    BY <1>4, <2>1, <2>2, <2>3
<1>6. /\ outcome' \in [Tasks -> {"none", "queued", "SUCCESS", "FAILURE"}]
      /\ outcome'[t] = "queued"
      /\ \A u \in Tasks \ {t} : outcome'[u] = outcome[u]
  BY <1>1 DEF Dispatch, LogTypeOK
<1>7. LogTypeOK' /\ Counts(t)'
  <2>1. LogTypeOK'
    BY <1>1, <1>3, <1>5, <1>6 DEF LogTypeOK
  <2> QED
    BY <2>1, NumbersNext
<1>8. ASSUME NEW u \in Tasks, u # t PROVE TaskSound(u)'
  <2>1. TaskSound(u)
    BY DEF LogsSound
  <2>2. crashes <= crashes'
    BY <1>1, <1>3 DEF Counts
  <2> QED
    BY <1>1, <1>3, <1>5, <1>6, <1>7, <1>8, <2>1, <2>2, OtherTasks
<1>9. /\ Total(queue'[t]) = 1
      /\ Total(Attempts(t)') = MaxRetries + 1
  <2>1. Attempts(t) = [r \in Retries |-> 0]
    BY <1>2, Constants DEF Attempts
  <2>2. Total(queue[t]) = 0 /\ Total(Attempts(t)) = 0
    BY <1>2, <2>1, TotalZero
  <2>3. /\ Total(queue'[t]) = Total(queue[t]) + 1
        /\ Total(Attempts(t)') = Total(Attempts(t)) + (MaxRetries + 1 - 0)
    BY <1>1, <1>4, <1>5, <1>7, QueueMoves
  <2> QED
    BY <1>4, <2>2, <2>3
<1>10. \A w \in Workers : ~On(w, t)'
  BY <1>2, <1>3 DEF On
<1>11. Total(Busy(t)') = 0
  <2>1. Busy(t)' = [w \in Workers |-> 0]
    BY <1>10 DEF Busy
  <2> QED
    BY <2>1, TotalZero
<1>12. ASSUME NEW c \in Channels
       PROVE  /\ Total(ToCome(t, c)') = 0 /\ Total(OpenRows(t, c)') = 0
              /\ Total(Calling(t, c)') = 0 /\ Total(Taken(t, c)') = 0
  <2>1. /\ ToCome(t, c)' = [w \in Workers |-> 0]
        /\ OpenRows(t, c)' = [w \in Workers |-> 0]
        /\ Calling(t, c)' = [w \in Workers |-> 0]
        /\ Taken(t, c)' = [w \in Workers |-> 0]
    BY <1>10 DEF ToCome, RowsBy, OpenRows, Calling, Taken, OnChannel
  <2> QED
    BY <2>1, TotalZero
<1>13. ASSUME NEW c \in Channels PROVE ChannelSound(t, c)'
  <2>1. /\ RowsOf(t, c)' = 0 /\ RowsOf(t, c)' = RowsOf(t, c)
        /\ Sent(t, c)' = Sent(t, c)
        /\ rows'[t][c]["PENDING"] = rows[t][c]["PENDING"]
        /\ accepted'[t][c] = accepted[t][c]
    BY <1>2, <1>3 DEF RowsOf, Sent
  <2>2. /\ Total(Calling(t, c)) \in Nat /\ Total(Taken(t, c)) \in Nat
        /\ accepted[t][c] \in Nat /\ Sent(t, c) \in Nat
        /\ rows[t][c]["PENDING"] \in Nat
    BY <1>1, Constants, TotalType DEF Counts
  <2>3. /\ accepted[t][c] <= 0 /\ Sent(t, c) <= accepted[t][c]
    BY <1>1, <2>1, <2>2 DEF TaskSound, ChannelSound
  <2>4. Budget' \in Nat /\ MaxRetries + 1 <= Budget'
    <3>1. Budget' = Budget
      BY <1>3 DEF Budget
    <3> QED
      BY <1>1, <1>7, <3>1, BudgetGrows DEF Counts
  <2>5. Total(Attempts(t)') + Total(ToCome(t, c)') + RowsOf(t, c)' <= Budget'
    BY <1>4, <1>9, <1>12, <2>1, <2>4
  <2>6. Total(OpenRows(t, c)') <= rows'[t][c]["PENDING"]
    BY <1>12, <2>1, <2>2
  <2>7. accepted'[t][c] + Total(Calling(t, c)') <= RowsOf(t, c)'
    BY <1>12, <2>1, <2>2, <2>3
  <2>8. Sent(t, c)' + Total(Taken(t, c)') <= accepted'[t][c]
    BY <1>12, <2>1, <2>2, <2>3
  <2> QED
    BY <2>5, <2>6, <2>7, <2>8 DEF ChannelSound
<1>14. ASSUME t \in SendTasks PROVE SendSound(t)'
  <2>1. /\ Sent(t, "SMS")' = Sent(t, "SMS") /\ RowsOf(t, "SMS") = 0
        /\ "SMS" \in Channels
    BY <1>2, <1>3 DEF Sent, Channels
  <2>2. /\ Sent(t, "SMS") \in Nat /\ crashes' \in Nat
        /\ rows[t]["SMS"] \in [Status -> Nat]
    BY <1>1, <1>7, <2>1 DEF Counts
  <2>3. Sent(t, "SMS") <= RowsOf(t, "SMS")
    BY <2>2 DEF Sent, RowsOf, Status
  <2>4. Total(queue'[t]) + Total(Busy(t)') + Sent(t, "SMS")' <= 1 + crashes'
    BY <1>9, <1>11, <2>1, <2>2, <2>3
  <2> QED
    BY <1>6, <1>10, <2>4 DEF SendSound
<1>15. TaskSound(t)'
  BY <1>6, <1>10, <1>13, <1>14 DEF TaskSound
<1> QED
  BY <1>7, <1>8, <1>15 DEF LogsSound

-----------------------------------------------------------------------------
LEMMA InitLogsSound ==
  ASSUME LogGiven, LogInit
  PROVE  LogsSound
<1>1. LogTypeOK
  BY Constants DEF LogInit, LogTypeOK, LogGiven, Status
<1>2. ASSUME NEW t \in Tasks PROVE TaskSound(t)
  <2>1. /\ queue[t] = [r \in Retries |-> 0] /\ \A w \in Workers : ~On(w, t)
        /\ outcome[t] = "none" /\ Counts(t)
    BY <1>1, <1>2, Numbers DEF LogInit, On
  <2>2. Attempts(t) = [r \in Retries |-> 0] /\ Busy(t) = [w \in Workers |-> 0]
    BY <2>1, Constants DEF Attempts, Busy
  <2>3. /\ Total(queue[t]) = 0 /\ Total(Attempts(t)) = 0
        /\ Total(Busy(t)) = 0
    BY <2>1, <2>2, TotalZero
  <2>4. ASSUME NEW c \in Channels
        PROVE  /\ RowsOf(t, c) = 0 /\ Sent(t, c) = 0
               /\ rows[t][c]["PENDING"] = 0 /\ accepted[t][c] = 0
    BY <2>4 DEF LogInit, RowsOf, Sent, Status
  <2>5. ASSUME NEW c \in Channels PROVE ChannelSound(t, c)
    <3>1. /\ ToCome(t, c) = [w \in Workers |-> 0]
          /\ OpenRows(t, c) = [w \in Workers |-> 0]
          /\ Calling(t, c) = [w \in Workers |-> 0]
          /\ Taken(t, c) = [w \in Workers |-> 0]
      BY <2>1 DEF ToCome, RowsBy, OpenRows, Calling, Taken, OnChannel
    <3>2. /\ Total(ToCome(t, c)) = 0 /\ Total(OpenRows(t, c)) = 0
          /\ Total(Calling(t, c)) = 0 /\ Total(Taken(t, c)) = 0
      BY <3>1, TotalZero
    <3>3. Budget \in Nat
      BY <2>1 DEF Counts
    <3> QED
      BY <2>3, <2>4, <3>2, <3>3 DEF ChannelSound
  <2>6. SendSound(t)
    <3>1. Sent(t, "SMS") = 0 /\ crashes \in Nat
      BY <2>1, <2>4 DEF Channels, Counts
    <3> QED
      BY <2>1, <2>3, <3>1 DEF SendSound
  <2> QED
    BY <2>1, <2>4, <2>5, <2>6 DEF TaskSound
<1> QED
  BY <1>1, <1>2 DEF LogsSound

LEMMA NextKeepsLogsSound ==
  ASSUME LogGiven, LogsSound, [LogNext]_logVars
  PROVE  LogsSound'
<1>1. CASE \E t \in Tasks : Dispatch(t)
  BY <1>1, DispatchKeeps
<1>2. ASSUME NEW w \in Workers, WorkerStep(w) PROVE LogsSound'
  <2>1. CASE \E t \in Tasks, r \in Retries : Take(w, t, r)
    BY <2>1, TakeKeeps
  <2>2. CASE Create(w) \/ NoTemplate(w)
    BY <2>2, RowKeeps, SkipKeeps
  <2>3. CASE CallProvider(w)
    BY <2>3, CallKeeps
  <2>4. CASE MarkSent(w) \/ MarkFailed(w)
    BY <2>4, MarkKeeps
  <2>5. CASE ServiceRaises(w)
    BY <2>5, RaisesKeeps
  <2>6. CASE Retry(w)
    BY <2>6, RetryKeeps
  <2>7. CASE Ack(w)
    BY <2>7, DoneKeeps
  <2> QED
    BY <1>2, <2>1, <2>2, <2>3, <2>4, <2>5, <2>6, <2>7 DEF WorkerStep
<1>3. CASE \E w \in Workers : Kill(w)
  BY <1>3, DoneKeeps
<1>4. CASE \E w \in Workers : Crash(w)
  BY <1>4, CrashKeeps
<1>5. CASE UNCHANGED logVars
  <2>1. /\ LogTypeOK' /\ work' = work /\ queue' = queue /\ rows' = rows
        /\ accepted' = accepted /\ outcome' = outcome /\ crashes' = crashes
        /\ crashes \in Nat
    BY <1>5 DEF LogsSound, LogTypeOK, logVars, LogGiven
  <2>2. ASSUME NEW t \in Tasks PROVE TaskSound(t)'
    BY <2>1, OtherTasks DEF LogsSound
  <2> QED
    BY <2>1, <2>2 DEF LogsSound
<1> QED
  BY <1>1, <1>2, <1>3, <1>4, <1>5 DEF LogNext

(* The invariant holds for any tasks, retries and workers lost.             *)
THEOREM NotificationsAreSound == LogSpec => []LogsSound
<1>1. LogInit => LogsSound
  BY InitLogsSound, NotificationsAssumption
<1>2. LogsSound /\ [LogNext]_logVars => LogsSound'
  BY NextKeepsLogsSound, NotificationsAssumption
<1> QED
  BY <1>1, <1>2, PTL DEF LogSpec

LEMMA LogTrue ==
  ASSUME LogGiven, LogsSound
  PROVE  LogIsTrue
<1>1. \A t \in Tasks : Counts(t) /\ TaskSound(t)
  BY Numbers DEF LogsSound
<1>2. ASSUME NEW t \in Tasks, NEW c \in Channels
      PROVE  /\ Sent(t, c) <= accepted[t][c]
             /\ accepted[t][c] <= RowsOf(t, c)
             /\ RowsOf(t, c) <= (MaxRetries + 1) * (crashes + 1)
  <2>1. /\ Total(Attempts(t)) \in Nat /\ Total(ToCome(t, c)) \in Nat
        /\ Total(Calling(t, c)) \in Nat /\ Total(Taken(t, c)) \in Nat
        /\ RowsOf(t, c) \in Nat /\ Sent(t, c) \in Nat
        /\ accepted[t][c] \in Nat /\ Budget \in Nat
    BY <1>1, Constants, TotalType DEF Counts
  <2>2. ChannelSound(t, c)
    BY <1>1 DEF TaskSound
  <2>3. RowsOf(t, c) <= Budget
    BY <2>1, <2>2 DEF ChannelSound
  <2>4. Sent(t, c) <= accepted[t][c] /\ accepted[t][c] <= RowsOf(t, c)
    BY <2>1, <2>2 DEF ChannelSound
  <2> QED
    BY <2>3, <2>4 DEF Budget
<1>3. ASSUME NEW t \in SendTasks
      PROVE  /\ outcome[t] = "SUCCESS" /\ HasTemplate(t, "SMS") => Sent(t, "SMS") >= 1
             /\ Sent(t, "SMS") <= 1 + crashes
  <2>1. t \in Tasks /\ "SMS" \in Channels
    BY DEF Tasks, Channels
  <2>2. /\ Total(queue[t]) \in Nat /\ Total(Busy(t)) \in Nat
        /\ Sent(t, "SMS") \in Nat /\ crashes \in Nat
    BY <1>1, <2>1, Constants, TotalType DEF Counts
  <2>3. SendSound(t)
    BY <1>1, <2>1 DEF TaskSound
  <2> QED
    BY <2>2, <2>3 DEF SendSound, Resolved
<1> QED
  BY <1>2, <1>3 DEF LogIsTrue

(* What the log tells the operators is true: a SENT row stands for a        *)
(* message that the provider took, every message it took has a row, a send  *)
(* task that succeeded has a SENT row, and a task makes MaxRetries + 1      *)
(* attempts at most, and as many for each worker lost.                      *)
THEOREM LogsAreTrue == LogSpec => []LogIsTrue
<1>1. LogsSound => LogIsTrue
  BY LogTrue, NotificationsAssumption
<1>2. LogSpec => []LogsSound
  BY NotificationsAreSound
<1> QED
  BY <1>1, <1>2, PTL

-----------------------------------------------------------------------------
(* A worker answers for a task until it has queued its retry.               *)
AnswersFor(w, t) ==
  On(w, t) /\ (work[w].step = "ack" => work[w].result \in {"none", "failure"})

(* A task without a result is in the queue or with such a worker.           *)
NothingIsLost ==
  \A t \in Tasks :
    outcome[t] = "queued" =>
      \/ \E r \in Retries : queue[t][r] > 0
      \/ \E w \in Workers : AnswersFor(w, t)

(* What a worker with a task must leave behind: the task in the queue, or   *)
(* itself still answering for it, or a result.                              *)
LEMMA HandsOver ==
  ASSUME LogTypeOK, NothingIsLost, NEW w \in Workers, NEW t \in Tasks,
         \A v \in Workers \ {w} : work'[v] = work[v],
         \A r \in Retries : queue[t][r] > 0 => queue'[t][r] > 0,
         outcome'[t] = "queued" => outcome[t] = "queued",
         outcome'[t] = "queued" /\ AnswersFor(w, t) =>
           AnswersFor(w, t)' \/ \E r \in Retries : queue'[t][r] > 0,
         outcome'[t] = "queued"
  PROVE  \/ \E r \in Retries : queue'[t][r] > 0
         \/ \E v \in Workers : AnswersFor(v, t)'
<1>1. CASE \E r \in Retries : queue[t][r] > 0
  BY <1>1
<1>2. CASE \E v \in Workers : AnswersFor(v, t)
  <2>1. PICK v \in Workers : AnswersFor(v, t)
    BY <1>2
  <2>2. CASE v # w
    BY <2>1, <2>2 DEF AnswersFor, On
  <2> QED
    BY <2>1, <2>2
<1> QED
  BY <1>1, <1>2 DEF NothingIsLost

LEMMA StepLosesNothing ==
  ASSUME LogGiven, LogTypeOK, NothingIsLost, [LogNext]_logVars
  PROVE  NothingIsLost'
<1> SUFFICES ASSUME NEW t \in Tasks, outcome'[t] = "queued"
             PROVE  \/ \E r \in Retries : queue'[t][r] > 0
                    \/ \E w \in Workers : AnswersFor(w, t)'
  BY DEF NothingIsLost
<1>0. /\ 0 \in Retries
      /\ \A u \in Tasks, r \in Retries : queue[u][r] \in Nat
      /\ queue \in [Tasks -> [Retries -> Nat]]
      /\ DOMAIN outcome = Tasks /\ DOMAIN work = Workers
      /\ \A w \in Workers : work[w] # NoTask => work[w] \in Work
  BY DEF LogTypeOK, LogGiven, Retries
<1>1. ASSUME NEW u \in Tasks, Dispatch(u)
      PROVE  \/ \E r \in Retries : queue'[t][r] > 0
             \/ \E w \in Workers : AnswersFor(w, t)'
  <2>1. CASE u = t
    <3>1. queue'[t][0] = queue[t][0] + 1
      BY <1>0, <1>1, <2>1 DEF Dispatch
    <3> QED
      BY <1>0, <3>1
  <2>2. CASE u # t
    BY <1>0, <1>1, <2>2 DEF Dispatch, NothingIsLost, AnswersFor, On
  <2> QED
    BY <2>1, <2>2
<1>2. ASSUME NEW w \in Workers, WorkerStep(w) \/ Kill(w) \/ Crash(w)
      PROVE  \/ \E r \in Retries : queue'[t][r] > 0
             \/ \E v \in Workers : AnswersFor(v, t)'
  <2>1. CASE \E u \in Tasks, r \in Retries : Take(w, u, r)
    <3>1. PICK u \in Tasks, r \in Retries : Take(w, u, r)
      BY <2>1
    <3> DEFINE x == [task |-> u, retries |-> r, todo |-> ChannelsOf(u),
                     step |-> "create", result |-> "none"]
    <3>2. x \in Work /\ x.task = u /\ x.step = "create" /\ work'[w] = x
      BY <1>0, <3>1 DEF Take, Work, ChannelsOf, Channels, Steps, Results
    <3>3. CASE u = t
      BY <3>2, <3>3, IdleIsNoWork DEF AnswersFor, On
    <3>4. CASE u # t
      BY <1>0, <3>1, <3>4, HandsOver DEF Take, AnswersFor, On
    <3> QED
      BY <3>3, <3>4
  <2>2. ASSUME NoTemplate(w) \/ Create(w) \/ CallProvider(w) \/ MarkSent(w)
                 \/ MarkFailed(w) \/ ServiceRaises(w)
        PROVE  /\ queue' = queue /\ outcome' = outcome
               /\ work[w] \in Work
               /\ \E left, step, result :
                    /\ Becomes(w, left, step, result)
                    /\ step = "ack" => result = "none"
    <3>1. /\ queue' = queue /\ outcome' = outcome /\ work[w] \in Work
          /\ \/ \E step \in Steps \ {"ack"}, result \in Results :
                  Goto(w, step, result)
             \/ NextChannel(w)
      BY <1>0, <2>2
         DEF NoTemplate, Create, CallProvider, MarkSent, MarkFailed, ServiceRaises, Mark,
             AfterMark, At, Steps, Results
    <3> QED
      BY <3>1, Goes, GoesOn
  <2>3. CASE NoTemplate(w) \/ Create(w) \/ CallProvider(w) \/ MarkSent(w)
                 \/ MarkFailed(w) \/ ServiceRaises(w)
    <3>1. AnswersFor(w, t) => AnswersFor(w, t)'
      BY <2>2, <2>3, IdleIsNoWork DEF AnswersFor, On, Becomes
    <3>2. \A v \in Workers \ {w} : work'[v] = work[v]
      BY <2>2, <2>3 DEF Becomes
    <3> QED
      BY <2>2, <2>3, <3>1, <3>2, HandsOver
  <2>4. CASE Retry(w)
    <3>1. /\ work[w] # NoTask /\ work[w].task \in Tasks
          /\ work[w].retries \in Retries
          /\ \A v \in Workers \ {w} : work'[v] = work[v]
          /\ outcome' = outcome
      BY <1>0, <2>4 DEF Retry, At, Goto, Work
    <3>2. CASE work[w].retries < MaxRetries
      <4>1. /\ work[w].retries + 1 \in Retries
            /\ queue' = [queue EXCEPT
                          ![work[w].task][work[w].retries + 1] = @ + 1]
        BY <2>4, <3>1, <3>2 DEF Retry, Retries, LogGiven
      <4>2. /\ queue'[work[w].task][work[w].retries + 1] > 0
            /\ \A r \in Retries : queue[t][r] > 0 => queue'[t][r] > 0
        BY <1>0, <3>1, <4>1
      <4> QED
        BY <3>1, <4>1, <4>2, HandsOver DEF AnswersFor, On
    <3>3. CASE ~(work[w].retries < MaxRetries)
      <4>1. queue' = queue /\ Goto(w, "ack", "failure") /\ work[w] \in Work
        BY <1>0, <2>4, <3>1, <3>3 DEF Retry
      <4>2. Becomes(w, work[w].todo, "ack", "failure")
        BY <4>1, Goes DEF Steps, Results
      <4>3. AnswersFor(w, t) => AnswersFor(w, t)'
        BY <4>2, IdleIsNoWork DEF AnswersFor, On, Becomes
      <4> QED
        BY <3>1, <4>1, <4>3, HandsOver
    <3> QED
      BY <3>2, <3>3
  <2>5. CASE Ack(w)
    BY <1>0, <2>5, HandsOver DEF Ack, At, AnswersFor, On
  <2>6. CASE Kill(w)
    BY <1>0, <2>6, HandsOver DEF Kill, AnswersFor, On
  <2>7. CASE Crash(w)
    <3>1. /\ work[w].task \in Tasks /\ work[w].retries \in Retries
          /\ queue' = [queue EXCEPT ![work[w].task][work[w].retries] = @ + 1]
          /\ \A v \in Workers \ {w} : work'[v] = work[v]
          /\ outcome' = outcome
      BY <1>0, <2>7 DEF Crash, Work
    <3>2. /\ queue'[work[w].task][work[w].retries] > 0
          /\ \A r \in Retries : queue[t][r] > 0 => queue'[t][r] > 0
      BY <1>0, <3>1
    <3> QED
      BY <3>1, <3>2, HandsOver DEF AnswersFor, On
  <2> QED
    BY <1>2, <2>1, <2>3, <2>4, <2>5, <2>6, <2>7 DEF WorkerStep
<1>3. CASE UNCHANGED logVars
  BY <1>3 DEF logVars, NothingIsLost, AnswersFor, On
<1> QED
  BY <1>1, <1>2, <1>3 DEF LogNext

(* A task that was dispatched is never forgotten, whatever workers are lost:*)
(* until it has a result it is in the queue, or with a worker that has not  *)
(* handed it back; the safety half of DispatchedIsResolved.                 *)
THEOREM TasksAreNotLost == LogSpec => []NothingIsLost
<1>1. LogInit => NothingIsLost
  BY DEF LogInit, NothingIsLost
<1>2. LogsSound /\ NothingIsLost /\ [LogNext]_logVars => NothingIsLost'
  BY StepLosesNothing, NotificationsAssumption DEF LogsSound
<1> QED
  BY <1>1, <1>2, NotificationsAreSound, PTL DEF LogSpec
=============================================================================
