------------------------- MODULE EscrowStateMachine -------------------------
(***************************************************************************)
(* apps/escrow/state_machine.py: the states of an EscrowAccount and the     *)
(* adjacency map that EscrowStateMachine.validate consults.  The module has *)
(* no state, as the Python module has none.                                 *)
(***************************************************************************)

EscrowState ==
  {"PENDING", "HELD", "IN_TRANSIT", "DELIVERED", "RELEASED", "DISPUTED",
   "PARTIALLY_REFUNDED", "REFUNDED", "FROZEN"}

(* EscrowState.TERMINAL: no further transitions are permitted.              *)
Terminal == {"RELEASED", "REFUNDED"}

(* _TRANSITIONS                                                             *)
Transitions ==
  [ PENDING            |-> {"HELD", "FROZEN"},
    HELD               |-> {"IN_TRANSIT", "DISPUTED", "FROZEN", "REFUNDED",
                            "PARTIALLY_REFUNDED"},
    IN_TRANSIT         |-> {"DELIVERED", "DISPUTED", "FROZEN"},
    DELIVERED          |-> {"RELEASED", "DISPUTED", "FROZEN"},
    RELEASED           |-> {},
    DISPUTED           |-> {"RELEASED", "REFUNDED", "PARTIALLY_REFUNDED",
                            "FROZEN"},
    PARTIALLY_REFUNDED |-> {"RELEASED", "REFUNDED", "DISPUTED", "FROZEN"},
    REFUNDED           |-> {},
    FROZEN             |-> {"RELEASED", "REFUNDED", "DISPUTED",
                            "PARTIALLY_REFUNDED"} ]

(* Variants of validate's map: work on the order resumes after a partial    *)
(* refund, and a frozen account can be thawed into HELD.                    *)
ValidateResuming(current, target) ==
  \/ target \in Transitions[current]
  \/ current = "PARTIALLY_REFUNDED" /\ target = "IN_TRANSIT"

ValidateThawing(current, target) ==
  \/ target \in Transitions[current]
  \/ current = "FROZEN" /\ target = "HELD"

(* Variant: staying in a state is not a transition and always valid.        *)
ValidateIdempotent(current, target) ==
  target = current \/ target \in Transitions[current]

(* EscrowStateMachine.validate: the call returns, rather than raising       *)
(* InvalidTransitionError, exactly when the target is in the map.           *)
Validate(current, target) == target \in Transitions[current]
=============================================================================
