--------------------------- MODULE DeliveryProofs ---------------------------
(***************************************************************************)
(* Proofs about how a delivery is established, for any number of orders,    *)
(* accounts, requests, workers and failures: by the shipment's tracking log *)
(* (Shipments), and by auto_confirm_delivered once the buyer has not said   *)
(* anything for seven days (AutoConfirm).                                   *)
(***************************************************************************)
EXTENDS Shipments, AutoConfirm, TLAPS

(* Shipments.  Nothing protects the row, and its status may be thrown back  *)
(* to any earlier one.  What survives is the log: events are only ever      *)
(* added, so that the copy on which a request decides is of a status that   *)
(* is still on the log when the request writes.                             *)

LEMMA StatusKnown == {"CREATED", "DELIVERED"} \subseteq Status
BY DEF Status, Transitions

LEMMA OutForDelivery == Before("DELIVERED") = {"OUT_FOR_DELIVERY"}
BY DEF Before, Status, Transitions

LEMMA InitLogged == ShipmentInit => IInv
BY DEF ShipmentInit, IInv, ShipmentTypeOK, Row, NoShipment, LogOf

(* Neither the row nor the log is touched, and no copy is made.             *)
LEMMA RequestsEnd ==
  ASSUME IInv, UNCHANGED <<row, recorded, timer>>,
         NEW r \in Requests, End(r)
  PROVE  IInv'
<1>1. /\ request'[r] = NoRequest
      /\ \A q \in Requests \ {r} : request'[q] = request[q]
  BY DEF IInv, ShipmentTypeOK, End
<1>2. ShipmentTypeOK'
  BY DEF IInv, ShipmentTypeOK, End
<1>3. ASSUME NEW o \in Orders PROVE LogOf(o)'
  BY DEF IInv, LogOf
<1>4. ASSUME NEW q \in Requests, request'[q] # NoRequest PROVE Copied(q)'
  BY <1>1, <1>4 DEF IInv, Copied
<1> QED
  BY <1>2, <1>3, <1>4 DEF IInv

(* The log of one shipment grows: the other shipments and what the other    *)
(* requests have read are not disturbed.                                    *)
LEMMA OneShipment ==
  ASSUME IInv, ShipmentTypeOK', NEW o \in Orders, LogOf(o)',
         \A p \in Orders \ {o} :
           /\ row'[p] = row[p] /\ recorded'[p] = recorded[p]
           /\ p \in timer' <=> p \in timer,
         recorded[o] \subseteq recorded'[o],
         row'[o].status # "NONE",
         \A r \in Requests : request'[r] \in {request[r], NoRequest}
  PROVE  IInv'
<1>1. ASSUME NEW p \in Orders PROVE LogOf(p)'
  <2>1. CASE p = o
    BY <2>1
  <2>2. CASE p # o
    <3>1. /\ row'[p] = row[p] /\ recorded'[p] = recorded[p]
          /\ p \in timer' <=> p \in timer
      BY <2>2
    <3>2. LogOf(p)
      BY DEF IInv
    <3> QED
      BY <3>1, <3>2 DEF LogOf
  <2> QED
    BY <2>1, <2>2
<1>2. ASSUME NEW r \in Requests, request'[r] # NoRequest PROVE Copied(r)'
  <2>1. request'[r] = request[r] /\ request[r] # NoRequest
    BY <1>2
  <2>2. Copied(r) /\ request[r].order \in Orders
    BY <2>1 DEF IInv, ShipmentTypeOK
  <2>3. CASE request[r].order = o
    BY <2>1, <2>2, <2>3 DEF Copied
  <2>4. CASE request[r].order # o
    BY <2>1, <2>2, <2>4 DEF Copied
  <2> QED
    BY <2>3, <2>4
<1> QED
  BY <1>1, <1>2 DEF IInv

-----------------------------------------------------------------------------
LEMMA CreateKeepsIInv ==
  ASSUME IInv, NEW o \in Orders, CreateShipment(o)
  PROVE  IInv'
<1>1. PICK tracked \in BOOLEAN :
        row' = [row EXCEPT ![o] =
          [status |-> "CREATED", tracked |-> tracked,
           delivered |-> FALSE, confirmed |-> FALSE]]
  BY DEF CreateShipment
<1>2. /\ row'[o] = [status |-> "CREATED", tracked |-> tracked,
                    delivered |-> FALSE, confirmed |-> FALSE]
      /\ recorded'[o] = {"CREATED"}
      /\ \A p \in Orders \ {o} :
           row'[p] = row[p] /\ recorded'[p] = recorded[p]
      /\ timer' = timer /\ request' = request
  BY <1>1 DEF IInv, ShipmentTypeOK, CreateShipment
<1>3. ShipmentTypeOK'
  BY <1>1, StatusKnown DEF IInv, ShipmentTypeOK, CreateShipment, Row
<1>4. recorded[o] = {} /\ o \notin timer
  BY DEF IInv, LogOf, CreateShipment
<1>5. LogOf(o)'
  BY <1>2, <1>4 DEF LogOf
<1> QED
  BY <1>2, <1>3, <1>4, <1>5, OneShipment

LEMMA ReadKeepsIInv ==
  ASSUME IInv, NEW r \in Requests, NEW op \in Operations,
         NEW o \in Orders, NEW to \in Status, Read(r, op, o, to)
  PROVE  IInv'
<1>1. /\ request'[r] = [op |-> op, order |-> o, to |-> to, copy |-> row[o]]
      /\ \A q \in Requests \ {r} : request'[q] = request[q]
      /\ UNCHANGED <<row, recorded, timer>>
  BY DEF IInv, ShipmentTypeOK, Read
<1>2. ShipmentTypeOK'
  BY DEF IInv, ShipmentTypeOK, Read
<1>3. ASSUME NEW p \in Orders PROVE LogOf(p)'
  BY <1>1 DEF IInv, LogOf
<1>4. Copied(r)'
  BY <1>1 DEF IInv, LogOf, Read, Copied
<1>5. ASSUME NEW q \in Requests, request'[q] # NoRequest, q # r
      PROVE  Copied(q)'
  BY <1>1, <1>5 DEF IInv, Copied
<1> QED
  BY <1>2, <1>3, <1>4, <1>5 DEF IInv

(* Every transition, whatever the copy: the heart of the matter.            *)
LEMMA WriteKeepsIInv ==
  ASSUME IInv, NEW r \in Requests, request[r] # NoRequest,
         NEW tracked \in BOOLEAN, NEW confirmed \in BOOLEAN,
         Write(r, tracked, confirmed),
         confirmed => request[r].to = "DELIVERED",
         timer' \subseteq timer \cup {request[r].order},
         timer \subseteq timer',
         timer' # timer => request[r].to = "DELIVERED"
  PROVE  IInv'
<1>1. PICK o \in Orders, to \in Status :
        /\ request[r].order = o /\ request[r].to = to
        /\ request[r].copy \in Row
  BY DEF IInv, ShipmentTypeOK
<1>2. Copied(r) /\ LogOf(o)
  BY DEF IInv
<1>3. PICK now \in Row :
        /\ now =
             [status    |-> to,
              tracked   |-> row[o].tracked \/ tracked,
              delivered |-> row[o].delivered
                              \/ (to = "DELIVERED" /\ ~request[r].copy.delivered),
              confirmed |-> row[o].confirmed \/ confirmed]
        /\ row' = [row EXCEPT ![o] = now]
  <2> DEFINE written ==
        [status    |-> to,
         tracked   |-> row[o].tracked \/ tracked,
         delivered |-> row[o].delivered
                         \/ (to = "DELIVERED" /\ ~request[r].copy.delivered),
         confirmed |-> row[o].confirmed \/ confirmed]
  <2>1. written \in Row
    BY DEF Row
  <2>2. row' = [row EXCEPT ![o] = written]
    BY <1>1 DEF Write
  <2> QED
    BY <2>1, <2>2
<1>4. /\ now.status = to
      /\ now.delivered <=> row[o].delivered
             \/ (to = "DELIVERED" /\ ~request[r].copy.delivered)
      /\ now.confirmed <=> row[o].confirmed \/ confirmed
  BY <1>3
<1>5. /\ row'[o] = now
      /\ recorded'[o] = recorded[o] \cup {to}
      /\ \A p \in Orders \ {o} :
           row'[p] = row[p] /\ recorded'[p] = recorded[p]
  BY <1>1, <1>3 DEF IInv, ShipmentTypeOK, Write
<1>6. ShipmentTypeOK'
  BY <1>1, <1>3 DEF IInv, ShipmentTypeOK, Write, End
<1>7. request[r].copy.status \in Before(to) \cap recorded[o]
  BY <1>1, <1>2 DEF IInv, ShipmentTypeOK, Write, Valid, Copied, Before
<1>8. LogOf(o)'
  <2>1. row'[o].status # "NONE" /\ row'[o].status \in recorded'[o]
    BY <1>1, <1>4, <1>5 DEF Status, Transitions
  <2>2. ASSUME NEW s \in recorded'[o], s # "CREATED"
        PROVE  Before(s) \cap recorded'[o] # {}
    BY <1>2, <1>5, <1>7, <2>2 DEF LogOf
  <2>3. row'[o].delivered \/ row'[o].confirmed => "DELIVERED" \in recorded'[o]
    BY <1>1, <1>2, <1>4, <1>5 DEF LogOf
  <2>4. o \in timer' => "OUT_FOR_DELIVERY" \in recorded'[o]
    BY <1>1, <1>2, <1>5, <1>7, OutForDelivery DEF LogOf
  <2> QED
    BY <2>1, <2>2, <2>3, <2>4 DEF LogOf, Before
<1>9. \A q \in Requests : request'[q] \in {request[q], NoRequest}
  BY DEF IInv, ShipmentTypeOK, Write, End
<1>10. recorded[o] \subseteq recorded'[o] /\ row'[o].status # "NONE"
  BY <1>4, <1>5 DEF Status, Transitions
<1>11. \A p \in Orders \ {o} :
         /\ row'[p] = row[p] /\ recorded'[p] = recorded[p]
         /\ p \in timer' <=> p \in timer
  BY <1>1, <1>5
<1> QED
  BY <1>6, <1>8, <1>9, <1>10, <1>11, OneShipment

(* An admin's edit brings back a status and a delivery that are on the log. *)
LEMMA AdminEditKeepsIInv ==
  ASSUME IInv, NEW r \in Requests, AdminPatch(r) \/ AdminForm(r)
  PROVE  IInv'
<1>1. PICK o \in Orders :
        /\ request[r].order = o /\ row[o].status # "NONE"
        /\ request[r].copy \in Row /\ row[o] \in Row
        /\ request[r].copy.status \in recorded[o] /\ Copied(r) /\ LogOf(o)
        /\ row \in [Orders -> Row]
        /\ End(r) /\ UNCHANGED <<recorded, timer>>
  BY DEF IInv, ShipmentTypeOK, AdminPatch, AdminForm, Runs, Copied
<1>2. "NONE" \notin recorded[o]
  BY DEF IInv, ShipmentTypeOK, Status, Transitions
<1>3. PICK now \in Row :
        /\ row' = [row EXCEPT ![o] = now]
        /\ now.status = request[r].copy.status
        /\ now.delivered \in {row[o].delivered, request[r].copy.delivered}
        /\ now.confirmed \in {row[o].confirmed, request[r].copy.confirmed}
  <2>1. CASE AdminPatch(r)
    <3>1. PICK tracked \in BOOLEAN :
            row' = [row EXCEPT ![o] = [request[r].copy EXCEPT !.tracked = tracked]]
      BY <1>1, <2>1 DEF AdminPatch
    <3>2. [request[r].copy EXCEPT !.tracked = tracked] \in Row
      BY <1>1 DEF Row
    <3> QED
      BY <1>1, <3>1, <3>2 DEF Row
  <2>2. CASE AdminForm(r)
    <3>1. PICK tracked \in BOOLEAN :
            row' = [row EXCEPT ![o].status = request[r].copy.status,
                               ![o].tracked = tracked]
      BY <1>1, <2>2 DEF AdminForm
    <3> DEFINE saved == [row[o] EXCEPT !.status = request[r].copy.status,
                                       !.tracked = tracked]
    <3>2. row' = [row EXCEPT ![o] = saved]
      BY <1>1, <3>1
    <3>3. saved \in Row
      BY <1>1 DEF Row
    <3> QED
      BY <1>1, <3>2, <3>3 DEF Row
  <2> QED
    BY <2>1, <2>2
<1>4. /\ row'[o] = now
      /\ \A p \in Orders \ {o} : row'[p] = row[p]
  BY <1>1, <1>3
<1>5. ShipmentTypeOK'
  BY <1>1, <1>3 DEF IInv, ShipmentTypeOK, End
<1>6. LogOf(o)'
  BY <1>1, <1>2, <1>3, <1>4 DEF LogOf, Copied
<1>7. \A q \in Requests : request'[q] \in {request[q], NoRequest}
  BY <1>1 DEF IInv, ShipmentTypeOK, End
<1>8. row'[o].status # "NONE"
  BY <1>1, <1>2, <1>3, <1>4
<1> QED
  BY <1>1, <1>4, <1>5, <1>6, <1>7, <1>8, OneShipment

(* The timer of a delivery that is rolled back.                             *)
LEMMA LoseKeepsIInv ==
  ASSUME IInv, NEW r \in Requests, LoseDelivery(r)
  PROVE  IInv'
<1>1. PICK o \in Orders :
        /\ request[r].order = o /\ row[o].status # "NONE"
        /\ request[r].copy \in Row /\ Copied(r) /\ LogOf(o)
        /\ End(r) /\ UNCHANGED <<row, recorded>>
        /\ timer' = timer \cup {o}
  BY DEF IInv, ShipmentTypeOK, LoseDelivery, Runs, Copied
<1>2. request[r].copy.status = "OUT_FOR_DELIVERY"
  <2>1. /\ "DELIVERED" \in Transitions[request[r].copy.status]
        /\ request[r].copy.status \in Status
    BY <1>1 DEF LoseDelivery, Valid, Copied, IInv, ShipmentTypeOK
  <2>2. request[r].copy.status \in Before("DELIVERED")
    BY <2>1 DEF Before
  <2> QED
    BY <2>2, OutForDelivery
<1>3. ShipmentTypeOK'
  BY <1>1 DEF IInv, ShipmentTypeOK, End
<1>4. LogOf(o)'
  BY <1>1, <1>2 DEF LogOf, Copied
<1>5. \A q \in Requests : request'[q] \in {request[q], NoRequest}
  BY <1>1 DEF IInv, ShipmentTypeOK, End
<1> QED
  BY <1>1, <1>3, <1>4, <1>5, OneShipment

-----------------------------------------------------------------------------
LEMMA NextKeepsLogged == IInv /\ [ShipmentNext]_shipmentVars => IInv'
<1> SUFFICES ASSUME IInv, [ShipmentNext]_shipmentVars PROVE IInv'
  OBVIOUS
<1>1. CASE UNCHANGED shipmentVars
  BY <1>1 DEF shipmentVars, IInv, ShipmentTypeOK, LogOf, Copied
<1>2. ASSUME NEW o \in Orders, CreateShipment(o) PROVE IInv'
  BY <1>2, CreateKeepsIInv
<1>3. ASSUME NEW o \in Orders, NEW s \in Status, NEW r \in Requests,
             NEW op \in Operations, Read(r, op, o, s)
      PROVE  IInv'
  BY <1>3, ReadKeepsIInv
<1>4. ASSUME NEW r \in Requests,
             MarkDispatched(r) \/ TransitionStatus(r) \/ IngestTrackingEvent(r)
      PROVE  IInv'
  <2>1. /\ request[r] # NoRequest
        /\ \E tracked \in BOOLEAN : Write(r, tracked, FALSE)
        /\ timer' = timer
    BY <1>4 DEF MarkDispatched, TransitionStatus, IngestTrackingEvent, Runs
  <2> QED
    BY <2>1, WriteKeepsIInv
<1>5. ASSUME NEW r \in Requests, ConfirmDelivery(r) PROVE IInv'
  <2>1. /\ request[r] # NoRequest /\ request[r].to = "DELIVERED"
        /\ Write(r, FALSE, TRUE)
        /\ timer' \in {timer, timer \cup {request[r].order}}
    BY <1>5 DEF ConfirmDelivery, Runs, IInv, Copied
  <2> QED
    BY <2>1, WriteKeepsIInv
<1>6. ASSUME NEW r \in Requests,
             AdminPatch(r) \/ AdminForm(r) \/ LoseDelivery(r)
      PROVE  IInv'
  BY <1>6, AdminEditKeepsIInv, LoseKeepsIInv
<1>7. ASSUME NEW r \in Requests, GiveUp(r) PROVE IInv'
  BY <1>7, RequestsEnd DEF GiveUp
<1> QED
  BY <1>1, <1>2, <1>3, <1>4, <1>5, <1>6, <1>7 DEF ShipmentNext

(* The invariant holds for any number of shipments and requests.            *)
THEOREM ShipmentsAreLogged == ShipmentSpec => []IInv
<1>1. ShipmentInit => IInv
  BY InitLogged
<1>2. IInv /\ [ShipmentNext]_shipmentVars => IInv'
  BY NextKeepsLogged
<1> QED
  BY <1>1, <1>2, PTL DEF ShipmentSpec

(* The tracking log never has a gap, although no operation locks the row.   *)
THEOREM LogsHaveNoGap == ShipmentSpec => []LogHasNoGap
<1>1. IInv => LogHasNoGap
  BY DEF IInv, LogOf, LogHasNoGap
<1> QED
  BY <1>1, ShipmentsAreLogged, PTL

(* A delivery date and a confirmation have the delivery on the log, and the *)
(* release timer at least that the shipment was out for delivery.           *)
THEOREM DeliveriesAreOnLog == ShipmentSpec => []DeliveryIsOnLog
<1>1. IInv => DeliveryIsOnLog
  BY DEF IInv, LogOf, DeliveryIsOnLog
<1> QED
  BY <1>1, ShipmentsAreLogged, PTL

-----------------------------------------------------------------------------
(* AutoConfirm.  The lock's key is deleted by whoever is done, without a    *)
(* look at who set it.  It excludes all the same, because a worker that is  *)
(* done with an account is the one whose key it is.  And an old snapshot    *)
(* does no harm, because no account ever comes back to IN_TRANSIT.          *)

(* A worker between cache.add and cache.delete owns the key.                *)
Owns(w) ==
  /\ current[w] # Nothing => current[w] \in Accounts /\ lock[current[w]] = w
  /\ called[w] => current[w] # Nothing

NotYetShipped == {"ABSENT", "PENDING", "HELD"}

(* An account of a snapshot, however old.                                   *)
Snapshot(a) ==
  /\ account[a].state \notin NotYetShipped
  /\ account[a].state = "IN_TRANSIT" => a \in aged

(* The inductive invariant.                                                 *)
RunsSound ==
  /\ account = [a \in Accounts |-> account[a]]
  /\ \A a \in Accounts : account[a].state \in E!EscrowState \cup {"ABSENT"}
  /\ aged \subseteq Accounts
  /\ todo \in [Workers -> SUBSET Accounts]
  /\ current \in [Workers -> Accounts \cup {Nothing}]
  /\ called \in [Workers -> BOOLEAN]
  /\ lock \in [Accounts -> Workers \cup {Free}]
  /\ \A w \in Workers : Owns(w)
  /\ \A w \in Workers, a \in Accounts :
       a \in todo[w] \/ current[w] = a => Snapshot(a)

-----------------------------------------------------------------------------
(* What EscrowService may do to an account's row.                           *)
Saved(a) ==
  /\ account' = [a2 \in Accounts |-> account'[a2]]
  /\ \A b \in Accounts : b # a => account'[b] = account[b]
  /\ account'[a].state \in E!EscrowState
  /\ account'[a].state \in NotYetShipped => account[a].state \in NotYetShipped
  /\ account'[a].state = "IN_TRANSIT" => account[a].state = "HELD"

LEMMA CanMoveSaves ==
  ASSUME RunsSound, NEW a \in Accounts, NEW s \in E!EscrowState, NEW balance,
         \/ E!CanMove(a, s)
         \/ s = "PARTIALLY_REFUNDED" /\ account[a].state \in E!PartialRefundSources,
         E!Save(a, s, balance)
  PROVE  Saved(a)
<1>1. account'[a].state = s /\ \A b \in Accounts : b # a => account'[b] = account[b]
  BY DEF RunsSound, E!Save
<1>2. account' = [a2 \in Accounts |-> account'[a2]]
  BY DEF RunsSound, E!Save
<1>3. s \in NotYetShipped => account[a].state \in NotYetShipped
  BY DEF E!CanMove, E!Validate, E!Transitions, E!EscrowState, NotYetShipped
<1>4. s = "IN_TRANSIT" => account[a].state = "HELD"
  BY DEF E!CanMove, E!Validate, E!Transitions, E!EscrowState
<1> QED
  BY <1>1, <1>2, <1>3, <1>4 DEF Saved

LEMMA EscrowSteps ==
  ASSUME RunsSound, E!Next
  PROVE  UNCHANGED account \/ \E a \in Accounts : Saved(a)
<1> PICK a \in Accounts :
      \/ E!CreateAccount(a)
      \/ \E amount \in Amounts : E!HoldFunds(a, amount)
      \/ E!Move(a)
      \/ E!Release(a)
      \/ E!Refund(a)
      \/ \E amount \in Amounts : E!PartialRefund(a, amount)
  BY DEF E!Next
<1>0. {"PENDING", "HELD", "IN_TRANSIT", "DELIVERED", "DISPUTED", "FROZEN",
       "RELEASED", "REFUNDED", "PARTIALLY_REFUNDED"} \subseteq E!EscrowState
  BY DEF E!EscrowState
<1>1. CASE E!CreateAccount(a)
  BY <1>1 DEF RunsSound, E!CreateAccount, E!Absent, E!EscrowState, Saved, NotYetShipped
<1>2. CASE \E amount \in Amounts : E!HoldFunds(a, amount)
  BY <1>0, <1>2, CanMoveSaves DEF E!HoldFunds
<1>3. CASE E!Move(a)
  BY <1>0, <1>3, CanMoveSaves
     DEF E!Move, E!MarkInTransit, E!MarkDelivered, E!RaiseDispute, E!Freeze,
         E!SetState
<1>4. CASE E!Release(a)
  BY <1>0, <1>4, CanMoveSaves
     DEF E!Release, E!ReleaseFunds, E!ReleaseFlagged, E!MayRelease
<1>5. CASE E!Refund(a)
  BY <1>0, <1>5, CanMoveSaves DEF E!Refund
<1>6. CASE \E amount \in Amounts : E!PartialRefund(a, amount)
  BY <1>0, <1>6, CanMoveSaves DEF E!PartialRefund
<1> QED
  BY <1>1, <1>2, <1>3, <1>4, <1>5, <1>6

-----------------------------------------------------------------------------
(* A save of one account, or none, leaves what is known of the snapshots.   *)
LEMMA SnapshotsStay ==
  ASSUME RunsSound, Touch, UNCHANGED account \/ \E a \in Accounts : Saved(a)
  PROVE  /\ account' = [a \in Accounts |-> account'[a]]
         /\ \A a \in Accounts : account'[a].state \in E!EscrowState \cup {"ABSENT"}
         /\ \A a \in Accounts : Snapshot(a) => Snapshot(a)'
         /\ aged' \subseteq Accounts
<1>0. aged' \subseteq Accounts
  BY DEF RunsSound, Touch
<1>1. CASE UNCHANGED account
  BY <1>0, <1>1 DEF RunsSound, Touch, Snapshot
<1>2. ASSUME NEW b \in Accounts, Saved(b)
      PROVE  /\ account' = [a \in Accounts |-> account'[a]]
             /\ \A a \in Accounts :
                  account'[a].state \in E!EscrowState \cup {"ABSENT"}
             /\ \A a \in Accounts : Snapshot(a) => Snapshot(a)'
  <2>1. ASSUME NEW a \in Accounts, Snapshot(a) PROVE Snapshot(a)'
    BY <1>2, <2>1 DEF Saved, Touch, Snapshot, NotYetShipped
  <2>2. ASSUME NEW a \in Accounts
        PROVE  account'[a].state \in E!EscrowState \cup {"ABSENT"}
    BY <1>2 DEF Saved, RunsSound
  <2> QED
    BY <1>2, <2>1, <2>2 DEF Saved
<1> QED
  BY <1>0, <1>1, <1>2

LEMMA InitRunsSound == Init => RunsSound
BY KeysAssumption
   DEF Init, RunsSound, E!Init, E!Absent, E!EscrowState, Owns

LEMMA NextKeepsRunsSound == RunsSound /\ [Next]_vars => RunsSound'
<1> SUFFICES ASSUME RunsSound, [Next]_vars PROVE RunsSound'
  OBVIOUS
<1>1. CASE UNCHANGED vars
  BY <1>1 DEF vars, escrowVars, taskVars, RunsSound, Owns, Snapshot
<1>2. CASE Call
  BY <1>2, EscrowSteps, SnapshotsStay DEF Call, taskVars, RunsSound, Owns
<1>3. ASSUME NEW a \in Accounts, Age(a) PROVE RunsSound'
  BY <1>3 DEF Age, escrowVars, taskVars, RunsSound, Owns, Snapshot
<1>4. ASSUME NEW a \in Accounts, Expire(a) PROVE RunsSound'
  BY <1>4 DEF Expire, escrowVars, RunsSound, Owns, Snapshot
<1>5. ASSUME NEW w \in Workers, Start(w) PROVE RunsSound'
  <2>1. \A a \in Eligible : a \in Accounts => Snapshot(a)
    BY DEF Eligible, Snapshot, NotYetShipped
  <2>2. todo' \in [Workers -> SUBSET Accounts]
    BY <1>5 DEF Start, RunsSound, Eligible
  <2> QED
    BY <1>5, <2>1, <2>2 DEF Start, escrowVars, RunsSound, Owns, Snapshot
<1>6. ASSUME NEW w \in Workers, NEW a \in Accounts, TakeLock(w, a)
      PROVE  RunsSound'
  <2>1. \A v \in Workers : Owns(v)'
    BY <1>6, KeysAssumption DEF TakeLock, RunsSound, Owns
  <2> QED
    BY <1>6, <2>1 DEF TakeLock, escrowVars, RunsSound, Snapshot
<1>7. ASSUME NEW w \in Workers, NEW a \in Accounts, Skip(w, a) PROVE RunsSound'
  BY <1>7 DEF Skip, escrowVars, RunsSound, Owns, Snapshot
<1>8. ASSUME NEW w \in Workers, Confirm(w) PROVE RunsSound'
  <2>1. current[w] \in Accounts
    BY <1>8 DEF Confirm, RunsSound, Owns
  <2>2. UNCHANGED account \/ \E a \in Accounts : Saved(a)
    BY <1>8, <2>1, CanMoveSaves
       DEF Confirm, escrowVars, E!MarkDelivered, E!SetState, E!EscrowState
  <2> QED
    BY <1>8, <2>2, SnapshotsStay DEF Confirm, RunsSound, Owns
<1>9. ASSUME NEW w \in Workers, Unlock(w) PROVE RunsSound'
  <2>1. \A v \in Workers : Owns(v)'
    BY <1>9 DEF Unlock, RunsSound, Owns
  <2> QED
    BY <1>9, <2>1, KeysAssumption DEF Unlock, escrowVars, RunsSound, Snapshot, Owns
<1>10. ASSUME NEW w \in Workers, Abort(w) PROVE RunsSound'
  <2>1. \A v \in Workers : Owns(v)'
    BY <1>10 DEF Abort, Drop, RunsSound, Owns
  <2> QED
    BY <1>10, <2>1, KeysAssumption DEF Abort, Drop, escrowVars, RunsSound, Snapshot, Owns
<1>11. ASSUME NEW w \in Workers, Kill(w) PROVE RunsSound'
  <2>1. \A v \in Workers : Owns(v)'
    BY <1>11 DEF Kill, Drop, RunsSound, Owns
  <2> QED
    BY <1>11, <2>1, KeysAssumption DEF Kill, Drop, escrowVars, RunsSound, Snapshot
<1> QED
  BY <1>1, <1>2, <1>3, <1>4, <1>5, <1>6, <1>7, <1>8, <1>9, <1>10, <1>11
     DEF Next, Run

(* The invariant holds for any number of accounts, workers and failures.    *)
THEOREM WorkersOwnTheirLocks == Spec => []RunsSound
<1>1. Init => RunsSound
  BY InitRunsSound
<1>2. RunsSound /\ [Next]_vars => RunsSound'
  BY NextKeepsRunsSound
<1> QED
  BY <1>1, <1>2, PTL DEF Spec

(* Two workers never confirm one account at a time, though cache.delete     *)
(* does not check who set the key.                                          *)
THEOREM LocksExclude == Spec => []LockIsExclusive
<1>1. RunsSound => LockIsExclusive
  BY DEF RunsSound, Owns, LockIsExclusive
<1> QED
  BY <1>1, WorkersOwnTheirLocks, PTL

(* However old its snapshot, a run delivers only accounts that are in       *)
(* transit and have not been touched for the whole window.                  *)
THEOREM OnlyUntouchedAreConfirmed == Spec => OnlyUntouchedIsConfirmed
<1> DEFINE A == \A w \in Workers, a \in Accounts :
       current[w] = a /\ ~called[w] /\ called'[w] /\ account'[a] # account[a]
         => account[a].state = "IN_TRANSIT" /\ a \in aged
<1>1. RunsSound /\ [Next]_vars => [A]_vars
  <2> SUFFICES ASSUME RunsSound, Next, NEW w \in Workers, NEW a \in Accounts,
                      current[w] = a, ~called[w], called'[w],
                      account'[a] # account[a]
               PROVE  account[a].state = "IN_TRANSIT" /\ a \in aged
    BY DEF A
  <2>1. Confirm(w)
    BY DEF Next, Call, Age, Expire, Start, Run, TakeLock, Skip, Confirm, Unlock,
           Abort, Kill, Drop, taskVars, RunsSound
  <2>2. E!MarkDelivered(a)
    BY <2>1 DEF Confirm, escrowVars
  <2>3. E!CanMove(a, "DELIVERED")
    BY <2>2 DEF E!MarkDelivered, E!SetState
  <2>4. account[a].state = "IN_TRANSIT"
    BY <2>3 DEF E!CanMove, E!Validate, E!Transitions, E!EscrowState
  <2> QED
    BY <2>4 DEF RunsSound, Snapshot
<1> QED
  BY <1>1, WorkersOwnTheirLocks, PTL DEF Spec, OnlyUntouchedIsConfirmed

-----------------------------------------------------------------------------
(* The task is one of the callers of EscrowService, so that what is proved  *)
(* of the service holds next to it.                                         *)
EP == INSTANCE EscrowProofs

LEMMA ServiceSteps == E!Next => EP!Next
<1> SUFFICES ASSUME NEW a \in Accounts,
                    \/ E!CreateAccount(a)
                    \/ \E amount \in Amounts : E!HoldFunds(a, amount)
                    \/ E!Move(a)
                    \/ E!Release(a)
                    \/ E!Refund(a)
                    \/ \E amount \in Amounts : E!PartialRefund(a, amount)
             PROVE  EP!Next
  BY DEF E!Next
<1> USE DEF E!CanMove, EP!CanMove, E!Validate, EP!Validate, E!Transitions,
            EP!Transitions, E!EscrowState, EP!EscrowState, E!Quiet, EP!Quiet,
            E!Save, EP!Save, E!Post, EP!Post
<1>1. E!CreateAccount(a) => EP!CreateAccount(a)
  BY DEF E!CreateAccount, EP!CreateAccount, E!Absent, EP!Absent
<1>2. \A amount : E!HoldFunds(a, amount) => EP!HoldFunds(a, amount)
  BY DEF E!HoldFunds, EP!HoldFunds, E!PostReceipt, EP!PostReceipt
<1>3. \A s : E!SetState(a, s) => EP!SetState(a, s)
  BY DEF E!SetState, EP!SetState
<1>4. E!Move(a) => EP!Move(a)
  BY <1>3
     DEF E!Move, EP!Move, E!MarkInTransit, EP!MarkInTransit, E!MarkDelivered,
         EP!MarkDelivered, E!RaiseDispute, EP!RaiseDispute, E!Freeze, EP!Freeze
<1>5. E!Release(a) => EP!Release(a)
  BY DEF E!Release, EP!Release, E!ReleaseFunds, EP!ReleaseFunds,
         E!ReleaseFlagged, EP!ReleaseFlagged, E!MayRelease, EP!MayRelease,
         E!EvaluateFraudGate, EP!EvaluateFraudGate, E!FeeOf, EP!FeeOf,
         E!FraudFreezeThreshold, EP!FraudFreezeThreshold
<1>6. E!Refund(a) => EP!Refund(a)
  BY DEF E!Refund, EP!Refund, E!PostRefund, EP!PostRefund
<1>7. \A amount : E!PartialRefund(a, amount) => EP!PartialRefund(a, amount)
  BY DEF E!PartialRefund, EP!PartialRefund, E!PartialRefundSources,
         EP!PartialRefundSources, E!PostRefund, EP!PostRefund
<1> QED
  BY <1>1, <1>2, <1>4, <1>5, <1>6, <1>7 DEF EP!Next

LEMMA StepIsServiceStep == RunsSound /\ [Next]_vars => [EP!Next]_(EP!vars)
<1> SUFFICES ASSUME RunsSound, [Next]_vars, ~UNCHANGED escrowVars
             PROVE  E!Next
  BY ServiceSteps DEF escrowVars, EP!vars
<1>1. Call \/ \E w \in Workers : Confirm(w)
  BY DEF Next, vars, Age, Expire, Start, Run, TakeLock, Skip, Unlock, Abort, Kill
<1>2. ASSUME NEW w \in Workers, Confirm(w) PROVE E!Next
  <2>1. current[w] \in Accounts
    BY <1>2 DEF Confirm, RunsSound, Owns
  <2>2. E!MarkDelivered(current[w])
    BY <1>2 DEF Confirm
  <2> QED
    BY <2>1, <2>2 DEF E!Next, E!Move
<1> QED
  BY <1>1, <1>2 DEF Call

(* Whatever locks, snapshots and kills do to a run, an account only ever    *)
(* goes through the operations of EscrowService.                            *)
THEOREM RunsFollowService == Spec => EP!Spec
<1>1. Init => EP!Init
  BY DEF Init, E!Init, EP!Init, E!Absent, EP!Absent
<1> QED
  BY <1>1, StepIsServiceStep, WorkersOwnTheirLocks, PTL DEF Spec, EP!Spec

(* The money of an account that is confirmed by the task stays in custody,  *)
(* as FundsCustody says.                                                    *)
THEOREM RunsKeepCustody == Spec => EP!CustodySpec
BY RunsFollowService, EP!EscrowKeepsCustody, ServiceAssumption, PTL

(* Types, those of the escrow rows included; and the bound on failures.     *)
THEOREM RunsAreTyped == Spec => []TypeOK
<1>1. EP!Spec => []EP!TypeOK
  BY EP!TypeCorrect, ServiceAssumption
<1>2. EP!TypeOK => E!TypeOK
  BY DEF EP!TypeOK, E!TypeOK, EP!Account, E!Account, EP!LedgerSums,
         E!LedgerSums, EP!Hold, E!Hold, EP!EscrowState, E!EscrowState,
         EP!Absent, E!Absent
<1> DEFINE Bounded == failures \in 0..MaxFailures
<1>3. Init => Bounded
  BY MaxFailuresAssumption DEF Init
<1>4. Bounded /\ [Next]_vars => Bounded'
  <2>1. [Next]_vars => UNCHANGED failures \/ \E w \in Workers : Drop(w)
    BY DEF Next, vars, taskVars, Call, Age, Expire, Start, Run, TakeLock, Skip,
           Confirm, Unlock, Abort, Kill
  <2>2. ASSUME failures \in 0..MaxFailures, NEW w \in Workers, Drop(w)
        PROVE  failures' \in 0..MaxFailures
    BY <2>2, MaxFailuresAssumption DEF Drop
  <2> QED
    BY <2>1, <2>2
<1>5. E!TypeOK /\ RunsSound /\ Bounded => TypeOK
  BY DEF TypeOK, RunsSound
<1> HIDE DEF Bounded
<1> QED
  BY <1>1, <1>2, <1>3, <1>4, <1>5, RunsFollowService, WorkersOwnTheirLocks, PTL
     DEF Spec
=============================================================================
