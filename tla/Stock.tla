------------------------------- MODULE Stock --------------------------------
(***************************************************************************)
(* What reserving stock promises to an order, with rows, locks, copies and  *)
(* deadlocks forgotten: all lines of an order are reserved together or none *)
(* is, an order takes its units once, and what is given back are all units  *)
(* of an order that took some, while that much is held.  Nothing else moves *)
(* a unit.                                                                  *)
(***************************************************************************)
EXTENDS Integers

CONSTANTS Products, Orders, Qty, InitialStock

VARIABLES available, held, placed

vars == <<available, held, placed>>

Init ==
  /\ available = InitialStock
  /\ held = [p \in Products |-> 0]
  /\ placed = {}

Fits(o, units) == \A p \in Products : Qty[o][p] <= units[p]

Take(o) ==
  /\ o \notin placed
  /\ Fits(o, available)
  /\ available' = [p \in Products |-> available[p] - Qty[o][p]]
  /\ held' = [p \in Products |-> held[p] + Qty[o][p]]
  /\ placed' = placed \cup {o}

(* Two cancellations of one order both give back, the second one units that *)
(* are held for others.                                                     *)
GiveBack(o) ==
  /\ o \in placed
  /\ Fits(o, held)
  /\ available' = [p \in Products |-> available[p] + Qty[o][p]]
  /\ held' = [p \in Products |-> held[p] - Qty[o][p]]
  /\ placed' = placed

Next == \E o \in Orders : Take(o) \/ GiveBack(o)

Spec == Init /\ [][Next]_vars
=============================================================================
