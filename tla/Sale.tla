-------------------------------- MODULE Sale --------------------------------
(***************************************************************************)
(* What the marketplace promises the buyer and the vendor of an order,      *)
(* whatever its rows and requests look like.                                *)
(*                                                                          *)
(* A sale is paid once.  Then it takes its course: the goods are sent and   *)
(* the vendor is paid, or the buyer has the money back before anything was  *)
(* sent.  A sale that is stopped, by the buyer's dispute or by staff, never *)
(* takes its course again: it waits until somebody settles it.  A settled   *)
(* sale stays settled.                                                      *)
(***************************************************************************)

CONSTANT Orders

VARIABLES
  phase,     \* how far the sale is
  sent,      \* orders whose goods were sent
  contested  \* orders about which the buyer has raised a dispute

vars == <<phase, sent, contested>>

Phase == {"new", "on course", "stopped", "vendor paid", "buyer refunded", "void"}

Init ==
  /\ phase = [o \in Orders |-> "new"]
  /\ sent = {}
  /\ contested = {}

Become(o, next) == phase' = [phase EXCEPT ![o] = next]

Pay(o) ==
  /\ phase[o] = "new"
  /\ Become(o, "on course")
  /\ UNCHANGED <<sent, contested>>

(* An account that was frozen before the payment is closed.                 *)
Void(o) ==
  /\ phase[o] = "new"
  /\ Become(o, "void")
  /\ UNCHANGED <<sent, contested>>

Send(o) ==
  /\ phase[o] = "on course"
  /\ o \notin sent \cup contested
  /\ sent' = sent \cup {o}
  /\ UNCHANGED <<phase, contested>>

(* Only goods that were sent are contested, and only once.                  *)
Contest(o) ==
  /\ phase[o] = "on course"
  /\ o \in sent \ contested
  /\ Become(o, "stopped")
  /\ contested' = contested \cup {o}
  /\ UNCHANGED sent

(* Staff freeze the account or give the buyer a part back.                  *)
Stop(o) ==
  /\ phase[o] = "on course"
  /\ Become(o, "stopped")
  /\ UNCHANGED <<sent, contested>>

PayVendor(o) ==
  /\ phase[o] = "stopped" \/ (phase[o] = "on course" /\ o \in sent)
  /\ Become(o, "vendor paid")
  /\ UNCHANGED <<sent, contested>>

RefundBuyer(o) ==
  /\ phase[o] = "stopped" \/ (phase[o] = "on course" /\ o \notin sent)
  /\ Become(o, "buyer refunded")
  /\ UNCHANGED <<sent, contested>>

Next ==
  \E o \in Orders :
    \/ Pay(o) \/ Void(o) \/ Send(o) \/ Contest(o) \/ Stop(o)
    \/ PayVendor(o) \/ RefundBuyer(o)

Spec == Init /\ [][Next]_vars
=============================================================================
