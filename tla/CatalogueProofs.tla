--------------------------- MODULE CatalogueProofs --------------------------
(***************************************************************************)
(* Proofs about Catalogue, for any listings, requests and retries.          *)
(*                                                                          *)
(* What is visible changes with every edit and suspension, and stale copies *)
(* bring old states back.  What does not change any more is that something  *)
(* was reviewed: a copy that was right when it was read is right for ever.  *)
(***************************************************************************)
EXTENDS Catalogue, TLAPS

(* A row of listing p that may be there.                                    *)
Kept(p, row) ==
  /\ row.status = "APPROVED" => p \in reviewed
  /\ row.enrichment = "COMPLETED" => row.ai

(* Listings that may be offered.                                            *)
Vetted(S) == S # {} => S \cup {"store"} \subseteq reviewed

(* What a request brings along from the time it has read it.                *)
Carries(r) ==
  /\ request[r].op = "update_store" =>
       /\ request[r].copy \in StoreStatus
       /\ request[r].copy = "APPROVED" => "store" \in reviewed
  /\ request[r].op = "edit" =>
       request[r].copy \in Row /\ Kept(request[r].product, request[r].copy)
  /\ request[r].op \in {"order", "read", "write"} =>
       Vetted({request[r].product})
  /\ request[r].op = "write" =>
       request[r].copy \subseteq Products /\ Vetted(request[r].copy)

(* What a slot may hold, see TypeOK.                                        *)
Request ==
  [op : {"update_store"}, product : Products, copy : StoreStatus]
  \cup [op : {"edit"}, product : Products, copy : Row]
  \cup [op : StoreOperations \cup ProductOperations,
        product : Products, copy : {NoRow}]
  \cup [op : IndexSteps, product : Products, copy : SUBSET Products]

(* The inductive invariant.                                                 *)
IInv ==
  /\ TypeOK
  /\ store = "APPROVED" => "store" \in reviewed
  /\ \A p \in Products : Exists(p) => Kept(p, product[p])
  /\ Vetted(csv) /\ Vetted(sold)
  /\ \A r \in Slots : request[r] # NoRequest => Carries(r)

-----------------------------------------------------------------------------
LEMMA InitIInv == Init => IInv
BY CatalogueAssumption DEF Init, IInv, TypeOK, StoreStatus, Exists, Vetted

LEMMA TypeOfRequest ==
  ASSUME TypeOK, NEW r \in Slots, request[r] # NoRequest
  PROVE  request[r].product \in Products
BY DEF TypeOK

(* Reviews are never taken back, so that what was read stays right.         *)
LEMMA ReadStaysRight ==
  ASSUME IInv, TypeOK', reviewed \subseteq reviewed',
         store' = "APPROVED" => "store" \in reviewed',
         \A p \in Products :
           product'[p] \in {product[p], NoRow} \/ Kept(p, product[p])',
         csv' = csv \/ Vetted(csv)', sold' = sold \/ Vetted(sold)',
         \A r \in Slots :
           request'[r] \in {request[r], NoRequest} \/ Carries(r)'
  PROVE  IInv'
<1>1. \A p \in Products : Exists(p)' => Kept(p, product[p])'
  BY DEF IInv, Exists, Kept
<1>2. Vetted(csv)' /\ Vetted(sold)'
  BY DEF IInv, Vetted
<1>3. ASSUME NEW r \in Slots, request'[r] # NoRequest PROVE Carries(r)'
  <2>1. CASE request'[r] = request[r]
    <3>1. Carries(r)
      BY <1>3, <2>1 DEF IInv
    <3> QED
      BY <2>1, <3>1 DEF Carries, Kept, Vetted
  <2> QED
    BY <1>3, <2>1
<1> QED
  BY <1>1, <1>2, <1>3 DEF IInv

(* The other variables are untouched: only what a request has read is new.  *)
LEMMA RequestReads ==
  ASSUME IInv, UNCHANGED <<store, product, tasks, csv, reviewed, sold>>,
         NEW r \in Slots, NEW now \in Request \cup {NoRequest},
         request' = [request EXCEPT ![r] = now],
         now = NoRequest \/ Carries(r)'
  PROVE  IInv'
<1>1. TypeOK'
  BY DEF IInv, TypeOK, Request
<1>2. \A q \in Slots : request'[q] = IF q = r THEN now ELSE request[q]
  BY DEF IInv, TypeOK
<1>3. \A p \in Products : product'[p] = product[p]
  OBVIOUS
<1>4. store' = "APPROVED" => "store" \in reviewed'
  BY DEF IInv
<1> QED
  BY <1>1, <1>2, <1>3, <1>4, ReadStaysRight

-----------------------------------------------------------------------------
LEMMA StartStoreKeepsIInv ==
  ASSUME IInv, NEW r \in Requests, NEW op \in StoreOperations,
         NEW p \in Products, StartStore(r, op, p)
  PROVE  IInv'
<1>1. PICK now \in Request :
        /\ now = [op |-> op, product |-> p,
                  copy |-> IF op = "update_store" THEN store ELSE NoRow]
        /\ request' = [request EXCEPT ![r] = now]
  <2>1. CASE op = "update_store"
    <3>1. [op |-> op, product |-> p, copy |-> store] \in
            [op : {"update_store"}, product : Products, copy : StoreStatus]
      BY <2>1 DEF IInv, TypeOK
    <3> QED
      BY <2>1, <3>1 DEF StartStore, Start, Request
  <2>2. CASE op # "update_store"
    <3>1. [op |-> op, product |-> p, copy |-> NoRow] \in
            [op : StoreOperations \cup ProductOperations,
             product : Products, copy : {NoRow}]
      OBVIOUS
    <3> QED
      BY <2>2, <3>1 DEF StartStore, Start, Request
  <2> QED
    BY <2>1, <2>2
<1>2. r \in Slots /\ request'[r] = now
  BY <1>1 DEF IInv, TypeOK, Slots
<1>3. Carries(r)'
  BY <1>1, <1>2 DEF IInv, TypeOK, StartStore, Start, Carries, StoreOperations
<1> QED
  BY <1>1, <1>2, <1>3, RequestReads DEF StartStore, Start

LEMMA StartProductKeepsIInv ==
  ASSUME IInv, NEW r \in Requests, NEW op \in ProductOperations,
         NEW p \in Products, StartProduct(r, op, p)
  PROVE  IInv'
<1>1. product[p] \in Row /\ Kept(p, product[p])
  BY DEF IInv, TypeOK, StartProduct, Exists
<1>2. PICK now \in Request :
        /\ now = [op |-> op, product |-> p,
                  copy |-> IF op = "edit" THEN product[p] ELSE NoRow]
        /\ request' = [request EXCEPT ![r] = now]
  <2>1. CASE op = "edit"
    <3>1. [op |-> op, product |-> p, copy |-> product[p]] \in
            [op : {"edit"}, product : Products, copy : Row]
      BY <1>1, <2>1
    <3> QED
      BY <2>1, <3>1 DEF StartProduct, Start, Request
  <2>2. CASE op # "edit"
    <3>1. [op |-> op, product |-> p, copy |-> NoRow] \in
            [op : StoreOperations \cup ProductOperations,
             product : Products, copy : {NoRow}]
      OBVIOUS
    <3> QED
      BY <2>2, <3>1 DEF StartProduct, Start, Request
  <2> QED
    BY <2>1, <2>2
<1>3. r \in Slots /\ request'[r] = now
  BY <1>2 DEF IInv, TypeOK, Slots
<1>4. op = "order" => Vetted({p})
  BY <1>1 DEF IInv, StartProduct, Visible, Kept, Vetted
<1>5. op \notin {"update_store", "read", "write"}
  BY DEF ProductOperations, Transitions
<1>6. Carries(r)'
  BY <1>1, <1>2, <1>3, <1>4, <1>5
     DEF StartProduct, Start, Carries, Vetted, Kept
<1> QED
  BY <1>2, <1>3, <1>6, RequestReads DEF StartProduct, Start

LEMMA IndexKeepsIInv ==
  ASSUME IInv, NEW r \in Slots, IndexIfVisible(r) \/ ReadCsv(r)
  PROVE  IInv'
<1>1. request[r] # NoRequest /\ Carries(r)
  BY DEF IInv, IndexIfVisible, ReadCsv, Runs
<1>2. PICK p \in Products : request[r].product = p
  BY <1>1, TypeOfRequest DEF IInv
<1>3. CASE IndexIfVisible(r)
  <2>1. request[r].op = "index" /\ request[r].copy \in SUBSET Products
    BY <1>1, <1>3 DEF IndexIfVisible, Runs, IInv, TypeOK,
       StoreOperations, ProductOperations, Transitions
  <2>2. PICK now \in Request :
          /\ now = [request[r] EXCEPT !.op = "read"]
          /\ request' = [request EXCEPT ![r] = now]
    BY <1>1, <1>3, <2>1 DEF IndexIfVisible, Request, IndexSteps, IInv, TypeOK
  <2>3. request'[r] = now /\ now.op = "read" /\ now.product = p
    BY <1>1, <1>2, <2>2 DEF IInv, TypeOK
  <2>4. Vetted({p})
    BY <1>2, <1>3 DEF IInv, IndexIfVisible, Visible, Kept, Vetted
  <2>5. Carries(r)'
    BY <1>3, <2>3, <2>4 DEF IndexIfVisible, Carries, Vetted
  <2> QED
    BY <1>3, <2>2, <2>5, RequestReads DEF IndexIfVisible
<1>4. CASE ReadCsv(r)
  <2>1. PICK now \in Request :
          /\ now = [op |-> "write", product |-> p, copy |-> csv]
          /\ request' = [request EXCEPT ![r] = now]
    BY <1>2, <1>4 DEF ReadCsv, Request, IndexSteps, IInv, TypeOK
  <2>2. request'[r] = now
    BY <2>1 DEF IInv, TypeOK
  <2>3. Vetted({p}) /\ Vetted(csv) /\ csv \subseteq Products
    BY <1>1, <1>2, <1>4 DEF IInv, TypeOK, ReadCsv, Runs, Carries
  <2>4. Carries(r)'
    BY <1>4, <2>1, <2>2, <2>3 DEF ReadCsv, Carries, Vetted
  <2> QED
    BY <1>4, <2>1, <2>4, RequestReads DEF ReadCsv
<1> QED
  BY <1>3, <1>4

-----------------------------------------------------------------------------
(* How a request may go on without a copy.                                  *)
GoesOn ==
  /\ request' \in [Slots -> Request \cup {NoRequest}]
  /\ \A r \in Slots :
       \/ request'[r] \in {request[r], NoRequest}
       \/ request'[r].op = "index"

LEMMA EndGoesOn ==
  ASSUME IInv, NEW r \in Slots, End(r)
  PROVE  GoesOn
BY DEF IInv, TypeOK, Request, End, GoesOn

LEMMA ThenIndexGoesOn ==
  ASSUME IInv, NEW r \in Slots, NEW p \in Products, ThenIndex(r, p)
  PROVE  GoesOn
<1>1. PICK now \in Request :
        now.op = "index" /\ request' = [request EXCEPT ![r] = now]
  <2>1. [op |-> "index", product |-> p, copy |-> {}] \in
          [op : IndexSteps, product : Products, copy : SUBSET Products]
    BY DEF IndexSteps
  <2> QED
    BY <2>1 DEF ThenIndex, Request
<1> QED
  BY <1>1 DEF IInv, TypeOK, Request, GoesOn

(* Only rows of listings are written.                                       *)
LEMMA RowsWritten ==
  ASSUME IInv, GoesOn,
         tasks' \subseteq [product : Products, retries : 0..MaxRetries],
         reviewed' \subseteq Products \cup {"store"}, reviewed \subseteq reviewed',
         UNCHANGED <<csv, sold>>,
         store' \in StoreStatus, store' = "APPROVED" => "store" \in reviewed',
         product' \in [Products -> Row \cup {NoRow}],
         \A p \in Products :
           product'[p] \in {product[p], NoRow} \/ Kept(p, product[p])'
  PROVE  IInv'
<1>1. TypeOK'
  BY DEF IInv, TypeOK, GoesOn, Request
<1>2. \A r \in Slots : request'[r] \in {request[r], NoRequest} \/ Carries(r)'
  BY DEF GoesOn, Carries
<1> QED
  BY <1>1, <1>2, ReadStaysRight

(* One row is written.                                                      *)
LEMMA RowWritten ==
  ASSUME IInv, GoesOn,
         tasks' \subseteq [product : Products, retries : 0..MaxRetries],
         reviewed' \subseteq Products \cup {"store"}, reviewed \subseteq reviewed',
         UNCHANGED <<store, csv, sold>>,
         NEW p \in Products, NEW now \in Row \cup {NoRow},
         product' = [product EXCEPT ![p] = now],
         now = NoRow \/ Kept(p, now)'
  PROVE  IInv'
<1>1. \A q \in Products : product'[q] = IF q = p THEN now ELSE product[q]
  BY DEF IInv, TypeOK
<1>2. product' \in [Products -> Row \cup {NoRow}]
  BY DEF IInv, TypeOK
<1>3. store' \in StoreStatus /\ (store' = "APPROVED" => "store" \in reviewed')
  BY DEF IInv, TypeOK
<1> QED
  BY <1>1, <1>2, <1>3, RowsWritten

-----------------------------------------------------------------------------
LEMMA StoreStepsKeepIInv ==
  ASSUME IInv, NEW r \in Slots,
         ApproveStore(r) \/ RejectStore(r) \/ UpdateStore(r)
  PROVE  IInv'
<1>1. GoesOn
  BY EndGoesOn DEF ApproveStore, RejectStore, UpdateStore
<1>2. UpdateStore(r) =>
        /\ request[r].copy \in StoreStatus
        /\ request[r].copy = "APPROVED" => "store" \in reviewed
  BY DEF IInv, UpdateStore, Runs, Carries
<1>3. /\ store' \in StoreStatus /\ (store' = "APPROVED" => "store" \in reviewed')
      /\ reviewed' \subseteq Products \cup {"store"} /\ reviewed \subseteq reviewed'
  BY <1>2 DEF IInv, TypeOK, ApproveStore, RejectStore, UpdateStore, StoreStatus
<1>4. UNCHANGED <<product, tasks, csv, sold>>
  BY DEF ApproveStore, RejectStore, UpdateStore
<1> QED
  BY <1>1, <1>3, <1>4, RowsWritten DEF IInv, TypeOK

LEMMA RegisterStoreKeepsIInv ==
  ASSUME IInv, RegisterStore
  PROVE  IInv'
<1>1. GoesOn
  BY DEF IInv, TypeOK, RegisterStore, Request, GoesOn
<1>2. store' = "PENDING" /\ store' \in StoreStatus
  BY DEF RegisterStore, StoreStatus
<1> QED
  BY <1>1, <1>2, RowsWritten DEF IInv, TypeOK, RegisterStore

LEMMA SuspendStoreKeepsIInv ==
  ASSUME IInv, NEW r \in Slots, SuspendStore(r)
  PROVE  IInv'
<1>1. GoesOn
  BY EndGoesOn DEF SuspendStore
<1>2. ASSUME NEW p \in Products
      PROVE  /\ product'[p] \in Row \cup {NoRow}
             /\ product'[p] = product[p] \/ Kept(p, product[p])'
  <2>1. CASE Exists(p) /\ product[p].status = "APPROVED"
    <3>1. product[p] \in Row /\ Kept(p, product[p])
      BY <2>1 DEF IInv, TypeOK, Exists
    <3>2. PICK now \in Row : now = [product[p] EXCEPT !.status = "ARCHIVED"]
      BY <3>1 DEF Row
    <3>3. product'[p] = now
      BY <2>1, <3>2 DEF SuspendStore
    <3>4. Kept(p, now)
      BY <3>1, <3>2 DEF Row, Kept
    <3> QED
      BY <3>3, <3>4 DEF SuspendStore, Kept
  <2>2. CASE ~(Exists(p) /\ product[p].status = "APPROVED")
    BY <2>2 DEF SuspendStore, IInv, TypeOK
  <2> QED
    BY <2>1, <2>2
<1>3. product' \in [Products -> Row \cup {NoRow}]
  BY <1>2 DEF SuspendStore
<1>4. store' = "SUSPENDED" /\ store' \in StoreStatus
  BY DEF SuspendStore, StoreStatus
<1> QED
  BY <1>1, <1>2, <1>3, <1>4, RowsWritten DEF IInv, TypeOK, SuspendStore

-----------------------------------------------------------------------------
LEMMA CreateProductKeepsIInv ==
  ASSUME IInv, NEW r \in Slots, CreateProduct(r)
  PROVE  IInv'
<1>1. PICK p \in Products : request[r].product = p
  BY TypeOfRequest DEF IInv, CreateProduct, Runs
<1>2. PICK now \in Row :
        now = [status |-> "DRAFT", enrichment |-> "NONE", ai |-> FALSE]
  BY DEF Row
<1>3. product' = [product EXCEPT ![p] = now] /\ Kept(p, now)'
  BY <1>1, <1>2 DEF CreateProduct, Kept
<1> QED
  BY <1>3, EndGoesOn, RowWritten DEF IInv, TypeOK, CreateProduct

LEMMA TransitionKeepsIInv ==
  ASSUME IInv, NEW r \in Slots, Transition(r)
  PROVE  IInv'
<1>1. PICK p \in Products : request[r].product = p
  BY TypeOfRequest DEF IInv, Transition
<1>2. PICK op \in DOMAIN Transitions : request[r].op = op
  BY DEF Transition
<1>3. product[p] \in Row /\ Kept(p, product[p])
  BY <1>1 DEF IInv, TypeOK, Transition, Exists
<1>4. Transitions[op].to \in {"PENDING", "APPROVED", "REJECTED", "ARCHIVED"}
      /\ (Transitions[op].to = "APPROVED" => op = "approve")
  BY <1>2 DEF Transitions
<1>5. PICK now \in Row : now = [product[p] EXCEPT !.status = Transitions[op].to]
  BY <1>3, <1>4 DEF Row
<1>6. product' = [product EXCEPT ![p] = now]
  BY <1>1, <1>2, <1>5 DEF Transition
<1>7. /\ reviewed \subseteq reviewed' /\ reviewed' \subseteq Products \cup {"store"}
      /\ op = "approve" => p \in reviewed'
  BY <1>1, <1>2 DEF Transition, IInv, TypeOK
<1>8. Kept(p, now)'
  BY <1>3, <1>4, <1>5, <1>7 DEF Row, Kept
<1>9. GoesOn
  BY <1>1, EndGoesOn, ThenIndexGoesOn DEF Transition
<1> QED
  BY <1>6, <1>7, <1>8, <1>9, RowWritten DEF IInv, TypeOK, Transition

LEMMA EditProductKeepsIInv ==
  ASSUME IInv, NEW r \in Slots, EditProduct(r)
  PROVE  IInv'
<1>1. PICK p \in Products : request[r].product = p
  BY TypeOfRequest DEF IInv, EditProduct, Runs
<1>2. PICK now \in Row : now = request[r].copy /\ Kept(p, now)
  BY <1>1 DEF IInv, EditProduct, Runs, Carries
<1>3. product' = [product EXCEPT ![p] = now] /\ Kept(p, now)'
  BY <1>1, <1>2 DEF EditProduct, Kept
<1> QED
  BY <1>3, EndGoesOn, RowWritten DEF IInv, TypeOK, EditProduct

LEMMA DeleteProductKeepsIInv ==
  ASSUME IInv, NEW p \in Products, DeleteProduct(p)
  PROVE  IInv'
<1>1. GoesOn
  BY DEF IInv, TypeOK, DeleteProduct, Request, GoesOn
<1>2. PICK now \in Row \cup {NoRow} : now = NoRow
  OBVIOUS
<1> QED
  BY <1>1, <1>2, RowWritten DEF IInv, TypeOK, DeleteProduct

LEMMA PlaceOrderKeepsIInv ==
  ASSUME IInv, NEW r \in Slots, PlaceOrder(r)
  PROVE  IInv'
<1>1. PICK p \in Products : request[r].product = p
  BY TypeOfRequest DEF IInv, PlaceOrder, Runs
<1>2. Vetted({p})
  BY <1>1 DEF IInv, PlaceOrder, Runs, Carries
<1>3. Vetted(sold)'
  BY <1>1, <1>2 DEF IInv, PlaceOrder, Vetted
<1>4. GoesOn
  BY EndGoesOn DEF PlaceOrder
<1>5. TypeOK'
  BY <1>1, <1>4 DEF IInv, TypeOK, PlaceOrder, GoesOn, Request
<1>6. \A q \in Slots : request'[q] \in {request[q], NoRequest} \/ Carries(q)'
  BY <1>4 DEF GoesOn, Carries
<1> QED
  BY <1>3, <1>5, <1>6, ReadStaysRight DEF IInv, PlaceOrder

LEMMA WriteCsvKeepsIInv ==
  ASSUME IInv, NEW r \in Slots, WriteCsv(r)
  PROVE  IInv'
<1>1. PICK p \in Products : request[r].product = p
  BY TypeOfRequest DEF IInv, WriteCsv, Runs
<1>2. PICK copy \in SUBSET Products : request[r].copy = copy /\ Vetted(copy)
  BY DEF IInv, WriteCsv, Runs, Carries
<1>3. Vetted({p})
  BY <1>1 DEF IInv, WriteCsv, Runs, Carries
<1>4. csv' \subseteq Products /\ Vetted(csv)'
  BY <1>1, <1>2, <1>3 DEF WriteCsv, Vetted
<1>5. GoesOn
  BY EndGoesOn DEF WriteCsv
<1>6. TypeOK'
  BY <1>4, <1>5 DEF IInv, TypeOK, WriteCsv, GoesOn, Request
<1>7. \A q \in Slots : request'[q] \in {request[q], NoRequest} \/ Carries(q)'
  BY <1>5 DEF GoesOn, Carries
<1> QED
  BY <1>4, <1>6, <1>7, ReadStaysRight DEF IInv, WriteCsv

-----------------------------------------------------------------------------
LEMMA QueueEnrichmentKeepsIInv ==
  ASSUME IInv, NEW p \in Products, QueueEnrichment(p)
  PROVE  IInv'
<1>1. product[p] \in Row /\ Kept(p, product[p])
  BY DEF IInv, TypeOK, QueueEnrichment, Exists
<1>2. PICK now \in Row : now = [product[p] EXCEPT !.enrichment = "PENDING"]
  BY <1>1 DEF Row
<1>3. product' = [product EXCEPT ![p] = now]
  BY <1>2 DEF QueueEnrichment
<1>4. Kept(p, now)'
  BY <1>1, <1>2 DEF Row, Kept, QueueEnrichment
<1>5. GoesOn
  BY DEF IInv, TypeOK, QueueEnrichment, Request, GoesOn
<1>6. tasks' \subseteq [product : Products, retries : 0..MaxRetries]
  BY CatalogueAssumption DEF IInv, TypeOK, QueueEnrichment
<1> QED
  BY <1>3, <1>4, <1>5, <1>6, RowWritten DEF IInv, TypeOK, QueueEnrichment

(* enrich and apply_external_payload leave the same row.                    *)
LEMMA EnrichKeepsIInv ==
  ASSUME IInv, NEW p \in Products, Exists(p), ThenIndex(Worker, p),
         tasks' \subseteq tasks, UNCHANGED <<store, csv, reviewed, sold>>,
         product' = [product EXCEPT ![p] =
           [status |-> @.status, enrichment |-> "COMPLETED", ai |-> TRUE]]
  PROVE  IInv'
<1>1. product[p] \in Row /\ Kept(p, product[p])
  BY DEF IInv, TypeOK, Exists
<1>2. PICK now \in Row :
        now = [status |-> product[p].status,
               enrichment |-> "COMPLETED", ai |-> TRUE]
  BY <1>1 DEF Row
<1>3. product' = [product EXCEPT ![p] = now]
  BY <1>2
<1>4. Kept(p, now)'
  BY <1>1, <1>2 DEF Kept
<1>5. GoesOn
  BY ThenIndexGoesOn DEF Slots
<1> QED
  BY <1>3, <1>4, <1>5, RowWritten DEF IInv, TypeOK

LEMMA EnrichFailsKeepsIInv ==
  ASSUME IInv, NEW t \in tasks, EnrichFails(t)
  PROVE  IInv'
<1>1. t \in [product : Products, retries : 0..MaxRetries]
  BY DEF IInv, TypeOK
<1>2. t.retries < MaxRetries =>
        [t EXCEPT !.retries = @ + 1] \in [product : Products, retries : 0..MaxRetries]
  BY <1>1, CatalogueAssumption
<1>3. tasks' \subseteq [product : Products, retries : 0..MaxRetries]
  BY <1>2 DEF IInv, TypeOK, EnrichFails
<1>4. GoesOn
  BY DEF IInv, TypeOK, EnrichFails, Request, GoesOn
<1> QED
  BY <1>3, <1>4, RowsWritten DEF IInv, TypeOK, EnrichFails

LEMMA EndKeepsIInv ==
  ASSUME IInv, NEW r \in Slots, GiveUp(r)
  PROVE  IInv'
BY EndGoesOn, RowsWritten DEF IInv, TypeOK, GiveUp

LEMMA ApplySuggestionsKeepsIInv ==
  ASSUME IInv, NEW r \in Slots, ApplySuggestions(r)
  PROVE  IInv'
<1>1. GoesOn
  BY TypeOfRequest, ThenIndexGoesOn DEF IInv, ApplySuggestions, Runs
<1> QED
  BY <1>1, RowsWritten DEF IInv, TypeOK, ApplySuggestions

-----------------------------------------------------------------------------
LEMMA NextKeepsIInv == IInv /\ [Next]_vars => IInv'
<1> SUFFICES ASSUME IInv, [Next]_vars PROVE IInv'
  OBVIOUS
<1>1. CASE UNCHANGED vars
  BY <1>1 DEF vars, IInv, TypeOK, Exists, Kept, Vetted, Carries
<1>2. CASE RegisterStore
  BY <1>2, RegisterStoreKeepsIInv
<1>3. ASSUME NEW p \in Products, DeleteProduct(p) PROVE IInv'
  BY <1>3, DeleteProductKeepsIInv
<1>4. ASSUME NEW p \in Products, QueueEnrichment(p) PROVE IInv'
  BY <1>4, QueueEnrichmentKeepsIInv
<1>5. ASSUME NEW p \in Products, ApplyExternalPayload(p) PROVE IInv'
  BY <1>5, EnrichKeepsIInv DEF ApplyExternalPayload
<1>6. ASSUME NEW p \in Products, NEW r \in Requests,
             NEW op \in StoreOperations, StartStore(r, op, p)
      PROVE  IInv'
  BY <1>6, StartStoreKeepsIInv
<1>7. ASSUME NEW p \in Products, NEW r \in Requests,
             NEW op \in ProductOperations, StartProduct(r, op, p)
      PROVE  IInv'
  BY <1>7, StartProductKeepsIInv
<1>8. ASSUME NEW t \in tasks, Enrich(t) PROVE IInv'
  <2>1. t.product \in Products
    BY DEF IInv, TypeOK
  <2> QED
    BY <1>8, <2>1, EnrichKeepsIInv DEF Enrich
<1>9. ASSUME NEW t \in tasks, EnrichFails(t) PROVE IInv'
  BY <1>9, EnrichFailsKeepsIInv
<1>10. ASSUME NEW r \in Slots,
              ApproveStore(r) \/ RejectStore(r) \/ UpdateStore(r)
       PROVE  IInv'
  BY <1>10, StoreStepsKeepIInv
<1>11. ASSUME NEW r \in Slots, SuspendStore(r) PROVE IInv'
  BY <1>11, SuspendStoreKeepsIInv
<1>12. ASSUME NEW r \in Slots,
              CreateProduct(r) \/ Transition(r) \/ EditProduct(r)
       PROVE  IInv'
  BY <1>12, CreateProductKeepsIInv, TransitionKeepsIInv, EditProductKeepsIInv
<1>13. ASSUME NEW r \in Slots, PlaceOrder(r) \/ ApplySuggestions(r)
       PROVE  IInv'
  BY <1>13, PlaceOrderKeepsIInv, ApplySuggestionsKeepsIInv
<1>14. ASSUME NEW r \in Slots,
              IndexIfVisible(r) \/ ReadCsv(r) \/ WriteCsv(r)
       PROVE  IInv'
  BY <1>14, IndexKeepsIInv, WriteCsvKeepsIInv
<1>15. ASSUME NEW r \in Slots, GiveUp(r) PROVE IInv'
  BY <1>15, EndKeepsIInv
<1> QED
  BY <1>1, <1>2, <1>3, <1>4, <1>5, <1>6, <1>7, <1>8, <1>9, <1>10, <1>11,
     <1>12, <1>13, <1>14, <1>15 DEF Next

(* The invariant holds for any number of listings, requests and retries.    *)
THEOREM CopiesAreVetted == Spec => []IInv
<1>1. Init => IInv
  BY InitIInv
<1>2. IInv /\ [Next]_vars => IInv'
  BY NextKeepsIInv
<1> QED
  BY <1>1, <1>2, PTL DEF Spec

(* Nothing is visible, in the assistant's index or sold that no admin has   *)
(* approved, with its store.                                                *)
THEOREM OffersAreReviewed == Spec => []OfferedWasReviewed
<1>1. IInv => OfferedWasReviewed
  BY DEF IInv, OfferedWasReviewed, Visible, Kept, Vetted
<1> QED
  BY <1>1, CopiesAreVetted, PTL

(* An enrichment that is COMPLETED has content.                             *)
THEOREM CompletedEnrichmentsHaveContent == Spec => []CompletedHasContent
<1>1. IInv => CompletedHasContent
  BY DEF IInv, CompletedHasContent, Kept
<1> QED
  BY <1>1, CopiesAreVetted, PTL

-----------------------------------------------------------------------------
(* Listing: every step is one of Vetting's, or a stutter.                   *)

(* No request is begun or ended that places an order.                       *)
LEMMA OffersChange ==
  ASSUME IInv', Ordering' = Ordering, sold' = sold, reviewed \subseteq reviewed'
  PROVE  Listing!Next
<1>1. Shown' \subseteq Passed'
  BY DEF IInv, Kept, Shown, Passed, Visible
<1>2. Passed \subseteq Passed' /\ Passed' \in SUBSET Products
  BY DEF Passed
<1>3. Listing!Decide(Passed')
  BY <1>1, <1>2 DEF Listing!Decide
<1> QED
  BY <1>2, <1>3 DEF Listing!Next

(* A slot is used for something else than an order, before and after.       *)
LEMMA NoOrder ==
  ASSUME TypeOK, NEW r \in Slots, NEW x,
         request' = [request EXCEPT ![r] = x],
         request[r] = NoRequest \/ request[r].op # "order",
         x = NoRequest \/ x.op # "order"
  PROVE  Ordering' = Ordering
<1>1. /\ request'[r] = x
      /\ \A q \in Slots \ {r} : request'[q] = request[q]
  BY DEF TypeOK
<1>2. \A q \in Slots : Runs(q, "order")' <=> Runs(q, "order")
  BY <1>1 DEF Runs, Slots
<1>3. \A q \in Slots : Runs(q, "order") => request'[q] = request[q]
  BY <1>1 DEF Runs, Slots
<1> QED
  BY <1>2, <1>3 DEF Ordering

LEMMA RequestEnds ==
  ASSUME TypeOK, NEW r \in Slots, request[r] # NoRequest, End(r)
  PROVE  /\ request[r].product \in Products
         /\ Ordering' \in {Ordering, Ordering \ {request[r].product}}
<1>1. request[r].product \in Products
  BY TypeOfRequest
<1>2. /\ request'[r] = NoRequest
      /\ \A q \in Slots \ {r} : request'[q] = request[q]
  BY DEF TypeOK, End
<1> QED
  BY <1>1, <1>2 DEF Ordering, Runs, Slots

LEMMA StoreRequestBegins ==
  ASSUME IInv, IInv', NEW r \in Requests, NEW op \in StoreOperations,
         NEW p \in Products, StartStore(r, op, p)
  PROVE  Listing!Next
<1> DEFINE new(copy) == [op |-> op, product |-> p, copy |-> copy]
<1>1. \A copy : new(copy).op # "order"
  BY DEF StoreOperations
<1>2. PICK copy : /\ request[r] = NoRequest
                  /\ request' = [request EXCEPT ![r] = new(copy)]
                  /\ UNCHANGED <<reviewed, sold>>
  BY DEF StartStore, Start
<1> HIDE DEF new
<1>3. Ordering' = Ordering
  BY <1>1, <1>2, NoOrder DEF IInv, Slots
<1> QED
  BY <1>2, <1>3, OffersChange

LEMMA ProductRequestBegins ==
  ASSUME IInv, IInv', NEW r \in Requests, NEW op \in ProductOperations,
         NEW p \in Products, StartProduct(r, op, p)
  PROVE  [Listing!Next]_(Listing!vars)
<1> DEFINE copied == IF op = "edit" THEN product[p] ELSE NoRow
           new == [op |-> op, product |-> p, copy |-> copied]
<1>1. new.op = op /\ new.product = p
  OBVIOUS
<1>2. /\ request[r] = NoRequest
      /\ request' = [request EXCEPT ![r] = new]
      /\ UNCHANGED <<store, product, reviewed, sold>>
  BY DEF StartProduct, Start
<1>3. op = "order" => p \in Shown
  BY DEF StartProduct, Shown
<1> HIDE DEF new
<1>4. CASE op # "order" \/ new = NoRequest
  <2>1. Ordering' = Ordering
    BY <1>1, <1>2, <1>4, NoOrder DEF IInv, Slots
  <2> QED
    BY <1>2, <2>1, OffersChange
<1>5. CASE op = "order" /\ new # NoRequest
  <2>1. /\ request'[r] = new
        /\ \A q \in Slots \ {r} : request'[q] = request[q]
    BY <1>2 DEF IInv, TypeOK, Slots
  <2>2. Ordering' = Ordering \cup {p}
    BY <1>1, <1>2, <1>5, <2>1 DEF Ordering, Runs, Slots
  <2>3. UNCHANGED <<Passed, Shown>>
    BY <1>2 DEF Passed, Shown, Visible, Exists
  <2> QED
    BY <1>2, <1>3, <1>5, <2>2, <2>3 DEF Listing!Claim, Listing!Next
<1> QED
  BY <1>4, <1>5

LEMMA StepIsVetted ==
  IInv /\ IInv' /\ [Next]_vars => [Listing!Next]_(Listing!vars)
<1> SUFFICES ASSUME IInv, IInv', [Next]_vars
             PROVE  [Listing!Next]_(Listing!vars)
  OBVIOUS
<1>0. TypeOK
  BY DEF IInv
<1>1. CASE RegisterStore \/ \E p \in Products : DeleteProduct(p) \/ QueueEnrichment(p)
  <2>1. UNCHANGED <<request, reviewed, sold>>
    BY <1>1 DEF RegisterStore, DeleteProduct, QueueEnrichment
  <2> QED
    BY <2>1, OffersChange DEF Ordering, Runs
<1>2. CASE \E t \in tasks : EnrichFails(t)
  <2>1. UNCHANGED <<request, reviewed, sold>>
    BY <1>2 DEF EnrichFails
  <2> QED
    BY <2>1, OffersChange DEF Ordering, Runs
<1>3. ASSUME NEW p, ThenIndex(Worker, p), request[Worker] = NoRequest,
             UNCHANGED <<reviewed, sold>>
      PROVE  Listing!Next
  <2>1. Ordering' = Ordering
    BY <1>0, <1>3, NoOrder DEF ThenIndex, Slots
  <2> QED
    BY <1>3, <2>1, OffersChange
<1>4. ASSUME NEW r \in Slots,
             \/ ApproveStore(r) \/ RejectStore(r) \/ SuspendStore(r)
             \/ UpdateStore(r) \/ CreateProduct(r) \/ Transition(r)
             \/ EditProduct(r) \/ ApplySuggestions(r)
             \/ IndexIfVisible(r) \/ ReadCsv(r) \/ WriteCsv(r)
      PROVE  Listing!Next
  <2>1. /\ sold' = sold /\ reviewed \subseteq reviewed'
        /\ request[r] # NoRequest /\ request[r].op # "order"
    BY <1>4
       DEF ApproveStore, RejectStore, SuspendStore, UpdateStore, CreateProduct,
           Transition, Transitions, EditProduct, ApplySuggestions,
           IndexIfVisible, ReadCsv, WriteCsv, Runs
  <2>2. \/ End(r) \/ \E p : ThenIndex(r, p)
        \/ request' = [request EXCEPT ![r].op = "read"]
        \/ \E p, copy : request' = [request EXCEPT ![r] =
                          [op |-> "write", product |-> p, copy |-> copy]]
    BY <1>4
       DEF ApproveStore, RejectStore, SuspendStore, UpdateStore, CreateProduct,
           Transition, EditProduct, ApplySuggestions,
           IndexIfVisible, ReadCsv, WriteCsv
  <2>3. PICK x : /\ request' = [request EXCEPT ![r] = x]
                 /\ x = NoRequest \/ x.op # "order"
    <3>1. CASE End(r)
      BY <3>1 DEF End
    <3>2. CASE \E p : ThenIndex(r, p)
      <4>1. PICK p : ThenIndex(r, p)
        BY <3>2
      <4> DEFINE x == [op |-> "index", product |-> p, copy |-> {}]
      <4>2. request' = [request EXCEPT ![r] = x] /\ x.op = "index"
        BY <4>1 DEF ThenIndex
      <4> QED
        BY <4>2
    <3>3. CASE request' = [request EXCEPT ![r].op = "read"]
      <4> DEFINE x == [request[r] EXCEPT !.op = "read"]
      <4>1. request' = [request EXCEPT ![r] = x]
        BY <3>3
      <4>2. x.op = "read"
        BY <1>0, <2>1 DEF TypeOK
      <4> QED
        BY <4>1, <4>2
    <3>4. CASE \E p, copy : request' = [request EXCEPT ![r] =
                          [op |-> "write", product |-> p, copy |-> copy]]
      <4>1. PICK p, copy : request' = [request EXCEPT ![r] =
                             [op |-> "write", product |-> p, copy |-> copy]]
        BY <3>4
      <4> DEFINE x == [op |-> "write", product |-> p, copy |-> copy]
      <4>2. request' = [request EXCEPT ![r] = x] /\ x.op = "write"
        BY <4>1
      <4> QED
        BY <4>2
    <3> QED
      BY <2>2, <3>1, <3>2, <3>3, <3>4
  <2>4. Ordering' = Ordering
    BY <1>0, <2>1, <2>3, NoOrder
  <2> QED
    BY <2>1, <2>4, OffersChange
<1>5. ASSUME NEW r \in Slots, PlaceOrder(r) PROVE Listing!Next
  <2>1. /\ Runs(r, "order") /\ request[r] # NoRequest /\ End(r)
        /\ sold' = sold \cup {request[r].product}
        /\ UNCHANGED <<store, product, reviewed>>
    BY <1>5 DEF PlaceOrder, Runs
  <2>2. request[r].product \in Products /\ request[r].product \in Ordering
    BY <1>0, <2>1, RequestEnds DEF Ordering
  <2>3. UNCHANGED <<Passed, Shown>>
    BY <2>1 DEF Passed, Shown, Visible, Exists
  <2>4. Listing!Use(request[r].product)
    BY <1>0, <2>1, <2>2, <2>3, RequestEnds DEF Listing!Use
  <2> QED
    BY <2>2, <2>4 DEF Listing!Next
<1>6. ASSUME NEW r \in Slots, GiveUp(r) PROVE [Listing!Next]_(Listing!vars)
  <2>1. /\ request[r] # NoRequest /\ End(r)
        /\ UNCHANGED <<store, product, reviewed, sold>>
    BY <1>6 DEF GiveUp
  <2>2. UNCHANGED <<Passed, Shown>>
    BY <2>1 DEF Passed, Shown, Visible, Exists
  <2> QED
    BY <1>0, <2>1, <2>2, RequestEnds DEF Listing!Drop, Listing!Next, Listing!vars
<1>7. CASE UNCHANGED vars
  BY <1>7
     DEF vars, Listing!vars, Passed, Shown, Visible, Exists, Ordering, Runs
<1>8. CASE \E p \in Products : ApplyExternalPayload(p)
  BY <1>8, <1>3 DEF ApplyExternalPayload
<1>9. CASE \E t \in tasks : Enrich(t)
  BY <1>9, <1>3 DEF Enrich
<1> QED
  BY <1>1, <1>2, <1>4, <1>5, <1>6, <1>7, <1>8, <1>9,
     StoreRequestBegins, ProductRequestBegins DEF Next

(* Sales follow the review of the listing and of its store, as Vetting      *)
(* says, for any listings, requests and retries.                            *)
THEOREM SalesAreVetted == Spec => SalesFollowReview
<1>1. Init => Listing!Init
  BY DEF Init, Listing!Init, Passed, Shown, Ordering, Visible, Exists, Runs, Slots
<1> QED
  BY <1>1, StepIsVetted, CopiesAreVetted, PTL
     DEF Spec, SalesFollowReview, Listing!Spec
=============================================================================
