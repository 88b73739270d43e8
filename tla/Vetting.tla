------------------------------ MODULE Vetting -------------------------------
(***************************************************************************)
(* What the admins' reviews promise about users and about listings, with    *)
(* documents, copies and locks forgotten.  An item is offered only after it *)
(* was reviewed, a request claims what is offered when it comes in, and     *)
(* only what was claimed is used, however long that takes and whatever has  *)
(* become of the offer by then.  A review is never forgotten, nor is a use. *)
(***************************************************************************)
CONSTANT Items

VARIABLES reviewed, offered, claims, used

vars == <<reviewed, offered, claims, used>>

Init == reviewed = {} /\ offered = {} /\ claims = {} /\ used = {}

(* Reviews, and with S = {} what changes the offer: freezing, suspending,   *)
(* rejecting, editing, bringing back.                                       *)
Decide(S) ==
  /\ reviewed' = reviewed \cup S
  /\ offered' \subseteq reviewed'
  /\ UNCHANGED <<claims, used>>

Claim(x) ==
  /\ x \in offered
  /\ claims' = claims \cup {x}
  /\ UNCHANGED <<reviewed, offered, used>>

(* Several requests may have a claim on the item.                           *)
Use(x) ==
  /\ x \in claims
  /\ used' = used \cup {x}
  /\ claims' \in {claims, claims \ {x}}
  /\ UNCHANGED <<reviewed, offered>>

Drop(x) ==
  /\ claims' = claims \ {x}
  /\ UNCHANGED <<reviewed, offered, used>>

Next ==
  \/ \E S \in SUBSET Items : Decide(S)
  \/ \E x \in Items : Claim(x) \/ Use(x) \/ Drop(x)

Spec == Init /\ [][Next]_vars
=============================================================================
