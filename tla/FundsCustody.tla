---------------------------- MODULE FundsCustody ----------------------------
(***************************************************************************)
(* What the escrow system promises about money, with the nine account       *)
(* states, the ledger and the fee forgotten: each account takes in money at *)
(* most once, everything it took in is either still in custody or has gone  *)
(* to the buyer, the vendor or the platform, and a settled account never    *)
(* moves money again.                                                       *)
(***************************************************************************)
EXTENDS Integers

CONSTANTS Accounts, Deposits  \* Deposits: the amounts that can be paid in

VARIABLES phase, inCustody, toBuyer, toVendor, toPlatform

vars == <<phase, inCustody, toBuyer, toVendor, toPlatform>>

Init ==
  /\ phase      = [a \in Accounts |-> "empty"]
  /\ inCustody  = [a \in Accounts |-> 0]
  /\ toBuyer    = [a \in Accounts |-> 0]
  /\ toVendor   = [a \in Accounts |-> 0]
  /\ toPlatform = [a \in Accounts |-> 0]

Deposit(a, amount) ==
  /\ phase[a] = "empty"
  /\ amount > 0
  /\ phase' = [phase EXCEPT ![a] = "funded"]
  /\ inCustody' = [inCustody EXCEPT ![a] = amount]
  /\ UNCHANGED <<toBuyer, toVendor, toPlatform>>

GiveBack(a, amount) ==
  /\ phase[a] = "funded"
  /\ 0 < amount /\ amount <= inCustody[a]
  /\ inCustody' = [inCustody EXCEPT ![a] = @ - amount]
  /\ toBuyer' = [toBuyer EXCEPT ![a] = @ + amount]
  /\ UNCHANGED <<phase, toVendor, toPlatform>>

(* The rest goes to the buyer and the account is closed, paid or not.       *)
SettleWithBuyer(a) ==
  /\ phase[a] # "settled"
  /\ phase' = [phase EXCEPT ![a] = "settled"]
  /\ inCustody' = [inCustody EXCEPT ![a] = 0]
  /\ toBuyer' = [toBuyer EXCEPT ![a] = @ + inCustody[a]]
  /\ UNCHANGED <<toVendor, toPlatform>>

(* The rest goes to the vendor, less the platform's cut.                    *)
SettleWithVendor(a, cut) ==
  /\ phase[a] = "funded"
  /\ inCustody[a] > 0
  /\ cut <= inCustody[a]
  /\ phase' = [phase EXCEPT ![a] = "settled"]
  /\ inCustody' = [inCustody EXCEPT ![a] = 0]
  /\ toVendor' = [toVendor EXCEPT ![a] = inCustody[a] - cut]
  /\ toPlatform' = [toPlatform EXCEPT ![a] = cut]
  /\ UNCHANGED toBuyer

Next ==
  \E a \in Accounts :
    \/ \E amount \in Deposits : Deposit(a, amount)
    \/ \E amount \in 1..inCustody[a] : GiveBack(a, amount)
    \/ SettleWithBuyer(a)
    \/ \E cut \in 0..inCustody[a] : SettleWithVendor(a, cut)

Spec == Init /\ [][Next]_vars
=============================================================================
