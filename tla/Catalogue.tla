----------------------------- MODULE Catalogue ------------------------------
(***************************************************************************)
(* apps/products without its stock: the review of a store and of its        *)
(* listings, the vendor's edits, catalogue enrichment, and the index from   *)
(* which the shopping assistant answers.                                    *)
(*                                                                          *)
(* Only enrichment locks the product.  Every other request works on a copy  *)
(* it has read before: a transition is validated on the copy and writes the *)
(* status, an edit writes all columns of the copy.                          *)
(***************************************************************************)
EXTENDS Integers

CONSTANTS
  Products,   \* listings of the one store
  Requests,   \* requests of vendors, buyers and admins in progress
  Worker,     \* the slot of the task worker and of the workbench's thread
  MaxRetries, \* max_retries of enrich_product_task
  NoRow,      \* the listing does not exist
  NoRequest   \* the slot is free

ASSUME CatalogueAssumption == Worker \notin Requests /\ MaxRetries \in Nat

Slots == Requests \cup {Worker}

VARIABLES
  store,      \* Store.status
  product,    \* Product: status, enrichment_status, is there AI content
  tasks,      \* queued enrich_product_task calls and their retries
  csv,        \* listings in the assistant's CSV
  reviewed,   \* what an admin has approved
  sold,       \* listings that an order has been placed for
  request     \* per slot: the operation, its listing, and the copy (of the
              \* store, of the listing or of the file) that it will save

vars == <<store, product, tasks, csv, reviewed, sold, request>>

StoreStatus == {"NONE", "PENDING", "APPROVED", "REJECTED", "SUSPENDED"}

(* The transitions that _PRODUCT_VALID_TRANSITIONS has a caller for.        *)
Transitions ==
  [ submit  |-> [from |-> {"DRAFT", "REJECTED"},            to |-> "PENDING"],
    approve |-> [from |-> {"PENDING"},                      to |-> "APPROVED"],
    reject  |-> [from |-> {"PENDING"},                      to |-> "REJECTED"],
    archive |-> [from |-> {"DRAFT", "PENDING", "APPROVED", "REJECTED"},
                 to |-> "ARCHIVED"] ]

Row == [status : {"DRAFT", "PENDING", "APPROVED", "REJECTED", "ARCHIVED"},
        enrichment : {"NONE", "PENDING", "COMPLETED"},
        ai : BOOLEAN]

StoreOperations == {"approve_store", "reject_store", "suspend_store",
                    "update_store", "create"}
ProductOperations == DOMAIN Transitions \cup {"edit", "apply", "order"}
IndexSteps == {"index", "read", "write"}

TypeOK ==
  /\ store \in StoreStatus
  /\ product \in [Products -> Row \cup {NoRow}]
  /\ tasks \subseteq [product : Products, retries : 0..MaxRetries]
  /\ csv \subseteq Products
  /\ reviewed \subseteq Products \cup {"store"}
  /\ sold \subseteq Products
  /\ request \in [Slots ->
       [op : {"update_store"}, product : Products, copy : StoreStatus]
       \cup [op : {"edit"}, product : Products, copy : Row]
       \cup [op : StoreOperations \cup ProductOperations,
             product : Products, copy : {NoRow}]
       \cup [op : IndexSteps, product : Products, copy : SUBSET Products]
       \cup {NoRequest}]

Init ==
  /\ store = "NONE"
  /\ product = [p \in Products |-> NoRow]
  /\ tasks = {} /\ csv = {}
  /\ reviewed = {} /\ sold = {}
  /\ request = [r \in Slots |-> NoRequest]

Exists(p) == product[p] # NoRow

(* Product.is_visible, and what an order line asks for.                     *)
Visible(p) ==
  /\ Exists(p)
  /\ product[p].status = "APPROVED"
  /\ store = "APPROVED"

-----------------------------------------------------------------------------
(* Requests.                                                                *)

Start(r, op, p, copy) ==
  /\ request[r] = NoRequest
  /\ request' = [request EXCEPT ![r] =
       [op |-> op, product |-> p, copy |-> copy]]
  /\ UNCHANGED <<store, product, tasks, csv, reviewed, sold>>

(* The store's copy allows it: IsStoreApproved for the vendor's listings.   *)
StartStore(r, op, p) ==
  /\ op \in {"approve_store", "reject_store"} => store = "PENDING"
  /\ op \in {"suspend_store", "create"} => store = "APPROVED"
  /\ op = "update_store" => store # "NONE"
  /\ op = "create" => ~Exists(p)
  /\ Start(r, op, p, IF op = "update_store" THEN store ELSE NoRow)

(* Variant: an order line looks at the listing, but not at its store.       *)
StartProductOfAnyStore(r, op, p) ==
  /\ Exists(p)
  /\ op \in DOMAIN Transitions => product[p].status \in Transitions[op].from
  /\ op \in {"submit", "edit", "apply"} => store = "APPROVED"
  /\ op = "order" => product[p].status = "APPROVED"
  /\ Start(r, op, p, IF op = "edit" THEN product[p] ELSE NoRow)

StartProduct(r, op, p) ==
  /\ Exists(p)
  /\ op \in DOMAIN Transitions => product[p].status \in Transitions[op].from
  /\ op \in {"submit", "edit", "apply"} => store = "APPROVED"
  /\ op = "order" => Visible(p)
  /\ Start(r, op, p, IF op = "edit" THEN product[p] ELSE NoRow)

Runs(r, op) == request[r] # NoRequest /\ request[r].op = op

End(r) == request' = [request EXCEPT ![r] = NoRequest]

(* transaction.on_commit: the listing is indexed next.                      *)
ThenIndex(r, p) ==
  request' = [request EXCEPT ![r] =
    [op |-> "index", product |-> p, copy |-> {}]]

(* Refused, failed or abandoned.                                            *)
GiveUp(r) ==
  /\ request[r] # NoRequest
  /\ End(r)
  /\ UNCHANGED <<store, product, tasks, csv, reviewed, sold>>

-----------------------------------------------------------------------------
(* StoreService.                                                            *)

RegisterStore ==
  /\ store = "NONE"
  /\ store' = "PENDING"
  /\ UNCHANGED <<product, tasks, csv, reviewed, sold, request>>

ApproveStore(r) ==
  /\ Runs(r, "approve_store")
  /\ store' = "APPROVED"
  /\ reviewed' = reviewed \cup {"store"}
  /\ End(r)
  /\ UNCHANGED <<product, tasks, csv, sold>>

RejectStore(r) ==
  /\ Runs(r, "reject_store")
  /\ store' = "REJECTED"
  /\ End(r)
  /\ UNCHANGED <<product, tasks, csv, reviewed, sold>>

(* The live listings are archived in one statement, whatever requests are   *)
(* under way.                                                               *)
SuspendStore(r) ==
  /\ Runs(r, "suspend_store")
  /\ store' = "SUSPENDED"
  /\ product' = [p \in Products |->
       IF Exists(p) /\ product[p].status = "APPROVED"
       THEN [product[p] EXCEPT !.status = "ARCHIVED"] ELSE product[p]]
  /\ End(r)
  /\ UNCHANGED <<tasks, csv, reviewed, sold>>

(* update_store: the serializer saves the status of its copy, too.          *)
UpdateStore(r) ==
  /\ Runs(r, "update_store")
  /\ store' = request[r].copy
  /\ End(r)
  /\ UNCHANGED <<product, tasks, csv, reviewed, sold>>

-----------------------------------------------------------------------------
(* ProductService and the vendor's views.                                   *)

CreateProduct(r) ==
  LET p == request[r].product
  IN /\ Runs(r, "create")
     /\ ~Exists(p)
     /\ product' = [product EXCEPT ![p] =
          [status |-> "DRAFT", enrichment |-> "NONE", ai |-> FALSE]]
     /\ End(r)
     /\ UNCHANGED <<store, tasks, csv, reviewed, sold>>

(* _transition; there is no row to update if the listing was deleted.       *)
Transition(r) ==
  LET p  == request[r].product
      op == request[r].op
  IN /\ request[r] # NoRequest
     /\ op \in DOMAIN Transitions
     /\ Exists(p)
     /\ product' = [product EXCEPT ![p].status = Transitions[op].to]
     /\ IF op = "approve"
        THEN reviewed' = reviewed \cup {p} /\ ThenIndex(r, p)
        ELSE UNCHANGED reviewed /\ End(r)
     /\ UNCHANGED <<store, tasks, csv, sold>>

(* Variant: status is one of the fields that the vendor may send.           *)
EditProductStatus(r) ==
  LET p == request[r].product
  IN /\ Runs(r, "edit")
     /\ \E s \in {"DRAFT", "APPROVED"} :
          product' = [product EXCEPT ![p] = [request[r].copy EXCEPT !.status = s]]
     /\ End(r)
     /\ UNCHANGED <<store, tasks, csv, reviewed, sold>>

(* perform_update of a field that live listings may change, or of any on a  *)
(* listing that is not live.  All columns are saved; the row of a deleted   *)
(* listing is inserted again.                                               *)
EditProduct(r) ==
  /\ Runs(r, "edit")
  /\ product' = [product EXCEPT ![request[r].product] = request[r].copy]
  /\ End(r)
  /\ UNCHANGED <<store, tasks, csv, reviewed, sold>>

(* The vendor's view set inherits destroy.                                  *)
DeleteProduct(p) ==
  /\ store = "APPROVED"
  /\ Exists(p)
  /\ product' = [product EXCEPT ![p] = NoRow]
  /\ UNCHANGED <<store, tasks, csv, reviewed, sold, request>>

(* _resolve_order_line has read the listing; the order is created later, if *)
(* the listing's stock row is still there.                                  *)
PlaceOrder(r) ==
  /\ Runs(r, "order")
  /\ Exists(request[r].product)
  /\ sold' = sold \cup {request[r].product}
  /\ End(r)
  /\ UNCHANGED <<store, product, tasks, csv, reviewed>>

-----------------------------------------------------------------------------
(* CatalogEnrichmentService.                                                *)

QueueEnrichment(p) ==
  /\ Exists(p)
  /\ product' = [product EXCEPT ![p].enrichment = "PENDING"]
  /\ tasks' = tasks \cup {[product |-> p, retries |-> 0]}
  /\ UNCHANGED <<store, csv, reviewed, sold, request>>

(* Variant: the status is saved before the content is there.                *)
EnrichInTwo(t) ==
  /\ request[Worker] = NoRequest
  /\ t \in tasks
  /\ Exists(t.product)
  /\ product' = [product EXCEPT ![t.product].enrichment = "COMPLETED"]
  /\ tasks' = tasks \ {t}
  /\ ThenIndex(Worker, t.product)
  /\ UNCHANGED <<store, csv, reviewed, sold>>

(* The row is locked from the start to the end.                             *)
Enrich(t) ==
  /\ request[Worker] = NoRequest
  /\ t \in tasks
  /\ Exists(t.product)
  /\ product' = [product EXCEPT ![t.product] =
       [status |-> @.status, enrichment |-> "COMPLETED", ai |-> TRUE]]
  /\ tasks' = tasks \ {t}
  /\ ThenIndex(Worker, t.product)
  /\ UNCHANGED <<store, csv, reviewed, sold>>

(* Variant: one retry too many.                                             *)
EnrichFailsAgain(t) ==
  /\ request[Worker] = NoRequest
  /\ t \in tasks
  /\ tasks' = (tasks \ {t}) \cup
       IF t.retries <= MaxRetries
       THEN {[t EXCEPT !.retries = @ + 1]} ELSE {}
  /\ UNCHANGED <<store, product, csv, reviewed, sold, request>>

(* EnrichmentError is raised inside the transaction, which takes FAILED and *)
(* its message back with it; the task is retried.                           *)
EnrichFails(t) ==
  /\ request[Worker] = NoRequest
  /\ t \in tasks
  /\ tasks' = (tasks \ {t}) \cup
       IF t.retries < MaxRetries
       THEN {[t EXCEPT !.retries = @ + 1]} ELSE {}
  /\ UNCHANGED <<store, product, csv, reviewed, sold, request>>

(* apply_external_payload, called by the thread of an EnrichmentJob.        *)
ApplyExternalPayload(p) ==
  /\ request[Worker] = NoRequest
  /\ Exists(p)
  /\ product' = [product EXCEPT ![p] =
       [status |-> @.status, enrichment |-> "COMPLETED", ai |-> TRUE]]
  /\ ThenIndex(Worker, p)
  /\ UNCHANGED <<store, tasks, csv, reviewed, sold>>

(* apply_suggestions copies the content to the listing's own columns, also  *)
(* to a live listing's.                                                     *)
ApplySuggestions(r) ==
  /\ Runs(r, "apply")
  /\ Exists(request[r].product)
  /\ ThenIndex(r, request[r].product)
  /\ UNCHANGED <<store, product, tasks, csv, reviewed, sold>>

-----------------------------------------------------------------------------
(* AssistantCatalogIndexer.index_product.                                   *)

IndexIfVisible(r) ==
  /\ Runs(r, "index")
  /\ Visible(request[r].product)
  /\ request' = [request EXCEPT ![r].op = "read"]
  /\ UNCHANGED <<store, product, tasks, csv, reviewed, sold>>

ReadCsv(r) ==
  /\ Runs(r, "read")
  /\ request' = [request EXCEPT ![r] =
       [op |-> "write", product |-> @.product, copy |-> csv]]
  /\ UNCHANGED <<store, product, tasks, csv, reviewed, sold>>

(* The file is written anew.  The row is then also pushed to the retriever, *)
(* which may fail and is not modelled.                                      *)
WriteCsv(r) ==
  /\ Runs(r, "write")
  /\ csv' = request[r].copy \cup {request[r].product}
  /\ End(r)
  /\ UNCHANGED <<store, product, tasks, reviewed, sold>>

-----------------------------------------------------------------------------
Next ==
  \/ RegisterStore
  \/ \E p \in Products :
       \/ DeleteProduct(p)
       \/ QueueEnrichment(p)
       \/ ApplyExternalPayload(p)
       \/ \E r \in Requests :
            \/ \E op \in StoreOperations : StartStore(r, op, p)
            \/ \E op \in ProductOperations : StartProduct(r, op, p)
  \/ \E t \in tasks : Enrich(t) \/ EnrichFails(t)
  \/ \E r \in Slots :
       \/ ApproveStore(r) \/ RejectStore(r) \/ SuspendStore(r) \/ UpdateStore(r)
       \/ CreateProduct(r) \/ Transition(r) \/ EditProduct(r) \/ PlaceOrder(r)
       \/ ApplySuggestions(r)
       \/ IndexIfVisible(r) \/ ReadCsv(r) \/ WriteCsv(r)
       \/ GiveUp(r)

Spec == Init /\ [][Next]_vars

-----------------------------------------------------------------------------
(* What buyers see, what the assistant offers and what has been ordered was *)
(* approved by an admin, and so was its store, whatever stale copies of the *)
(* listing and of the store vendors and admins write back, also over a      *)
(* suspension.                                                              *)
OfferedWasReviewed ==
  \A p \in Products :
    Visible(p) \/ p \in csv \cup sold
      => {p, "store"} \subseteq reviewed

(* The product page shows AI content exactly if the enrichment is           *)
(* COMPLETED: then there is some, whatever retries, second tasks, workbench *)
(* jobs and stale edits have written.                                       *)
CompletedHasContent ==
  \A p \in Products :
    Exists(p) /\ product[p].enrichment = "COMPLETED" => product[p].ai

(* The reviews of listings and of their store, as Vetting has them.         *)
Passed == {p \in Products : {p, "store"} \subseteq reviewed}
Shown == {p \in Products : Visible(p)}
Ordering ==
  {p \in Products :
     \E r \in Slots : Runs(r, "order") /\ request[r].product = p}

Listing ==
  INSTANCE Vetting WITH Items <- Products, reviewed <- Passed,
                        offered <- Shown, claims <- Ordering, used <- sold

(* What is sold was visible to buyers when the order came in, and had been  *)
(* approved by then, with its store: edits, deletions and suspensions in    *)
(* between may withdraw it, but never put what was not on offer on sale.    *)
SalesFollowReview == Listing!Spec
=============================================================================
