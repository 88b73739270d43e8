----------------------------- MODULE Shipments ------------------------------
(***************************************************************************)
(* apps/logistics: the shipment of an order, its tracking events, and the   *)
(* vendors, buyers, admins and carriers that move it along.                 *)
(*                                                                          *)
(* No operation locks the row.  Every one works on a copy that its request  *)
(* (or poll_carrier_apis, which lists all active shipments first and then   *)
(* calls the carriers one by one) has read before, validates the transition *)
(* on the copy and writes columns of it over whatever is there: the service *)
(* those that it changes, an admin's edit all of them.                      *)
(*                                                                          *)
(* What the carrier reports, by webhook or when it is polled, is any status *)
(* at any time: events are lost, repeated and late.                         *)
(***************************************************************************)
EXTENDS Integers

CONSTANTS
  Orders,    \* orders, each with at most one shipment
  Requests,  \* requests, webhooks and polls in progress
  NoRequest  \* the slot is free

VARIABLES
  row,       \* Shipment: its status, is carrier_tracking_number set, is
             \* delivered_at set, is delivery_confirmed_by set
  recorded,  \* the statuses that have a TrackingEvent
  timer,     \* orders with a start_escrow_auto_confirm_timer task
  request    \* per slot: the operation, its order and status, and the copy

shipmentVars == <<row, recorded, timer, request>>

(* VALID_TRANSITIONS                                                        *)
Transitions ==
  [ CREATED          |-> {"DISPATCHED", "RETURNED"},
    DISPATCHED       |-> {"IN_TRANSIT", "RETURNED"},
    IN_TRANSIT       |-> {"CUSTOMS", "RETURNED"},
    CUSTOMS          |-> {"CLEARED", "RETURNED"},
    CLEARED          |-> {"OUT_FOR_DELIVERY"},
    OUT_FOR_DELIVERY |-> {"DELIVERED", "FAILED_DELIVERY"},
    FAILED_DELIVERY  |-> {"OUT_FOR_DELIVERY", "RETURNED"},
    DELIVERED        |-> {},
    RETURNED         |-> {} ]

Status == DOMAIN Transitions

TrackingRequired ==
  {"DISPATCHED", "IN_TRANSIT", "OUT_FOR_DELIVERY", "DELIVERED"}

Row == [status : Status \cup {"NONE"}, tracked : BOOLEAN,
        delivered : BOOLEAN, confirmed : BOOLEAN]

NoShipment == [status |-> "NONE", tracked |-> FALSE,
               delivered |-> FALSE, confirmed |-> FALSE]

Operations ==
  {"dispatch", "patch", "form", "transition", "ingest", "confirm_delivery"}

ShipmentTypeOK ==
  /\ row \in [Orders -> Row]
  /\ recorded \in [Orders -> SUBSET Status]
  /\ timer \subseteq Orders
  /\ request \in [Requests ->
       [op : Operations, order : Orders, to : Status, copy : Row]
       \cup {NoRequest}]

ShipmentInit ==
  /\ row = [o \in Orders |-> NoShipment]
  /\ recorded = [o \in Orders |-> {}]
  /\ timer = {}
  /\ request = [r \in Requests |-> NoRequest]

-----------------------------------------------------------------------------
(* Variant: it starts with the name of an order's status.                   *)
CreateShipmentPending(o) ==
  /\ row[o].status = "NONE"
  /\ row' = [row EXCEPT ![o].status = "PENDING"]
  /\ recorded' = [recorded EXCEPT ![o] = {"CREATED"}]
  /\ UNCHANGED <<timer, request>>

(* create_shipment; the order is unique.                                    *)
CreateShipment(o) ==
  /\ row[o].status = "NONE"
  /\ \E tracked \in BOOLEAN :
       row' = [row EXCEPT ![o] = [status |-> "CREATED", tracked |-> tracked,
                                  delivered |-> FALSE, confirmed |-> FALSE]]
  /\ recorded' = [recorded EXCEPT ![o] = {"CREATED"}]
  /\ UNCHANGED <<timer, request>>

(* A view or the poll reads the shipment.  The carrier's webhook finds it   *)
(* by its tracking number, the poll only lists those that are active.  An   *)
(* admin's transition that the copy refuses ends there.                     *)
Read(r, op, o, to) ==
  /\ request[r] = NoRequest
  /\ row[o].status # "NONE"
  /\ op = "dispatch" => to = "DISPATCHED"
  /\ op \in {"patch", "form"} => to = row[o].status
  /\ op = "transition" => to \in Transitions[row[o].status]
  /\ op = "confirm_delivery" => to = "DELIVERED"
  /\ op = "ingest" => row[o].tracked
  /\ request' = [request EXCEPT ![r] =
       [op |-> op, order |-> o, to |-> to, copy |-> row[o]]]
  /\ UNCHANGED <<row, recorded, timer>>

Runs(r, op) == request[r] # NoRequest /\ request[r].op = op

End(r) == request' = [request EXCEPT ![r] = NoRequest]

(* ShipmentStateMachine.validate_transition and the tracking number guard.  *)
Valid(copy, to, tracked) ==
  /\ to \in Transitions[copy.status]
  /\ to \in TrackingRequired => tracked

(* transition_status on the request's copy: the event, the status, and      *)
(* delivered_at unless the copy has it.                                     *)
Write(r, tracked, confirmed) ==
  LET o    == request[r].order
      to   == request[r].to
      copy == request[r].copy
      now  == row[o]
  IN /\ Valid(copy, to, copy.tracked \/ tracked)
     /\ row' = [row EXCEPT ![o] =
          [status    |-> to,
           tracked   |-> now.tracked \/ tracked,
           delivered |-> now.delivered \/ (to = "DELIVERED" /\ ~copy.delivered),
           confirmed |-> now.confirmed \/ confirmed]]
     /\ recorded' = [recorded EXCEPT ![o] = @ \cup {to}]
     /\ End(r)

(* mark_dispatched: the tracking number is saved in the same transaction.   *)
MarkDispatched(r) ==
  /\ Runs(r, "dispatch")
  /\ Write(r, TRUE, FALSE)
  /\ UNCHANGED timer

(* PATCH by an admin: the serializer saves every column of the copy, the    *)
(* tracking number as the admin wants it.                                   *)
AdminPatch(r) ==
  /\ Runs(r, "patch")
  /\ \E tracked \in BOOLEAN :
       row' = [row EXCEPT ![request[r].order] =
                 [request[r].copy EXCEPT !.tracked = tracked]]
  /\ End(r)
  /\ UNCHANGED <<recorded, timer>>

(* The form of ShipmentAdmin brings back the status that it has shown;      *)
(* delivered_at and delivery_confirmed_by are not on it.                    *)
AdminForm(r) ==
  /\ Runs(r, "form")
  /\ \E tracked \in BOOLEAN :
       row' = [row EXCEPT ![request[r].order].status = request[r].copy.status,
                          ![request[r].order].tracked = tracked]
  /\ End(r)
  /\ UNCHANGED <<recorded, timer>>

(* transition_status, called by an admin.                                   *)
TransitionStatus(r) ==
  /\ Runs(r, "transition")
  /\ Write(r, FALSE, FALSE)
  /\ UNCHANGED timer

(* Variant: an event is recorded before the transition is validated.        *)
IngestUnvalidated(r) ==
  /\ Runs(r, "ingest")
  /\ recorded' = [recorded EXCEPT ![request[r].order] = @ \cup {request[r].to}]
  /\ End(r)
  /\ UNCHANGED <<row, timer>>

(* ingest_tracking_event: a status equal to the copy's is recorded again,   *)
(* which adds nothing; any other is a transition.                           *)
IngestTrackingEvent(r) ==
  /\ Runs(r, "ingest")
  /\ request[r].copy.status # request[r].to
  /\ Write(r, FALSE, FALSE)
  /\ UNCHANGED timer

(* Variant: delivery_confirmed_by is saved in a transaction of its own.     *)
ConfirmDeliveryInTwo(r) ==
  /\ Runs(r, "confirm_delivery")
  /\ request[r].copy.status # "DELIVERED"
  /\ row' = [row EXCEPT ![request[r].order].confirmed = TRUE]
  /\ End(r)
  /\ UNCHANGED <<recorded, timer>>

(* confirm_delivery: delivery_confirmed_by and the transition.  The timer    *)
(* task is sent before the transaction commits; if sending fails, it is not *)
(* sent again.                                                              *)
ConfirmDelivery(r) ==
  /\ Runs(r, "confirm_delivery")
  /\ request[r].copy.status # "DELIVERED"
  /\ Write(r, FALSE, TRUE)
  /\ timer' \in {timer, timer \cup {request[r].order}}

(* The timer task is sent and the transaction does not commit.              *)
LoseDelivery(r) ==
  /\ Runs(r, "confirm_delivery")
  /\ Valid(request[r].copy, "DELIVERED", request[r].copy.tracked)
  /\ timer' = timer \cup {request[r].order}
  /\ End(r)
  /\ UNCHANGED <<row, recorded>>

(* The copy does not allow it, the event is a duplicate, or the request     *)
(* fails: nothing is changed.                                               *)
GiveUp(r) ==
  /\ request[r] # NoRequest
  /\ End(r)
  /\ UNCHANGED <<row, recorded, timer>>

ShipmentNext ==
  \/ \E o \in Orders :
       \/ CreateShipment(o)
       \/ \E s \in Status :
            \E r \in Requests, op \in Operations : Read(r, op, o, s)
  \/ \E r \in Requests :
       \/ MarkDispatched(r)
       \/ AdminPatch(r) \/ AdminForm(r)
       \/ TransitionStatus(r)
       \/ IngestTrackingEvent(r)
       \/ ConfirmDelivery(r) \/ LoseDelivery(r)
       \/ GiveUp(r)

ShipmentSpec == ShipmentInit /\ [][ShipmentNext]_shipmentVars

-----------------------------------------------------------------------------
(* The stages that lead to s directly.                                      *)
Before(s) == {p \in Status : s \in Transitions[p]}

(* However late, often or out of order the events of the carrier and the    *)
(* requests of the three parties come, the tracking log that the buyer sees *)
(* has no gap: every stage on it was reached from one that is on it too,    *)
(* and so is the shipment's present status.                                 *)
LogHasNoGap ==
  \A o \in Orders :
    /\ row[o].status # "NONE" => row[o].status \in recorded[o]
    /\ \A s \in recorded[o] :
         s # "CREATED" => Before(s) \cap recorded[o] # {}

(* A shipment has a delivery date, or somebody who confirmed the delivery,  *)
(* only if the delivery is on the log, even if a stale request has changed  *)
(* the status since; and the timer that will release the money was sent for *)
(* a shipment that is on the log as out for delivery at least.  (A stale    *)
(* PATCH may take the date away again, and the delivery that sent the timer *)
(* may not have been committed.)                                            *)
DeliveryIsOnLog ==
  \A o \in Orders :
    /\ row[o].delivered \/ row[o].confirmed => "DELIVERED" \in recorded[o]
    /\ o \in timer => "OUT_FOR_DELIVERY" \in recorded[o]

-----------------------------------------------------------------------------
(* What is known of a request's copy, however old it is.                    *)
Copied(r) ==
  /\ request[r].copy.status \in recorded[request[r].order]
  /\ request[r].copy.delivered \/ request[r].copy.confirmed =>
       "DELIVERED" \in recorded[request[r].order]
  /\ row[request[r].order].status # "NONE"
  /\ request[r].op = "confirm_delivery" => request[r].to = "DELIVERED"

(* The log of one shipment.                                                 *)
LogOf(o) ==
  /\ row[o].status = "NONE" => recorded[o] = {}
  /\ row[o].status # "NONE" => row[o].status \in recorded[o]
  /\ \A s \in recorded[o] :
       s # "CREATED" => Before(s) \cap recorded[o] # {}
  /\ row[o].delivered \/ row[o].confirmed => "DELIVERED" \in recorded[o]
  /\ o \in timer => "OUT_FOR_DELIVERY" \in recorded[o]

(* The inductive invariant.                                                 *)
IInv ==
  /\ ShipmentTypeOK
  /\ \A o \in Orders : LogOf(o)
  /\ \A r \in Requests : request[r] # NoRequest => Copied(r)
=============================================================================
