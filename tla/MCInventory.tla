---------------------------- MODULE MCInventory -----------------------------
(* Three orders over two products with two units each: o1 and o2 take both  *)
(* products, one after the other and the other way round, and o3 one of     *)
(* them.  The whole stock satisfies any two orders.                         *)
EXTENDS Inventory

CONSTANTS o1, o2, o3, a, b

Quantities ==
  [o \in Orders |-> [p \in Products |-> IF o = o3 /\ p = b THEN 0 ELSE 1]]
LinesAsAsked ==
  [o \in Orders |-> [p \in Products |-> IF (o = o2) <=> (p = a) THEN 2 ELSE 1]]
Names == [p \in Products |-> IF p = a THEN 1 ELSE 2]
TwoOfEach == [p \in Products |-> 2]
=============================================================================
