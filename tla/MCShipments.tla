---------------------------- MODULE MCShipments -----------------------------
(* One order; the slots bound the requests that are under way at a time.    *)
EXTENDS Shipments, TLC

Slots == Permutations(Requests)
=============================================================================
