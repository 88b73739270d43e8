------------------------------ MODULE Accounts ------------------------------
(***************************************************************************)
(* apps/users: registration, the review of identity documents (KYC),        *)
(* freezing, profile edits, and the gate that orders pass through.          *)
(*                                                                          *)
(* UserService locks the row of the user and decides on what it reads then. *)
(* The views do not: authentication reads the user at the start of the      *)
(* request, and permission classes, the order gate and the profile          *)
(* serializer work on that copy.  The serializer saves all of it.           *)
(***************************************************************************)
CONSTANTS
  Users,     \* those who may register
  Nrcs,      \* national registration cards
  NoNrc,     \* nrc_number is NULL
  NoUser,    \* there is no row yet
  Requests,  \* requests of the users that are being handled
  NoRequest  \* the slot is free

VARIABLES
  user,      \* User: kyc_status, nrc_number, is_frozen
  approved,  \* <<u, n>>: an admin has approved user u with card n
  ordered,   \* users that have placed an order
  request    \* per slot: the operation, its user, the copy that a profile
             \* edit will save, and the card of a submission

vars == <<user, approved, ordered, request>>

KycStatus == {"UNVERIFIED", "PENDING", "VERIFIED", "REJECTED"}

User == [kyc : KycStatus, nrc : Nrcs \cup {NoNrc}, frozen : BOOLEAN]

ASSUME AccountsAssumption == NoUser \notin User

TypeOK ==
  /\ user \in [Users -> User \cup {NoUser}]
  /\ approved \subseteq Users \X Nrcs
  /\ ordered \subseteq Users
  /\ request \in [Requests ->
       [op : {"submit", "edit", "order"}, who : Users, copy : User \cup {NoUser},
        nrc : Nrcs \cup {NoNrc}] \cup {NoRequest}]

Init ==
  /\ user = [u \in Users |-> NoUser]
  /\ approved = {}
  /\ ordered = {}
  /\ request = [r \in Requests |-> NoRequest]

Registered(u) == user[u] # NoUser

HeldByAnother(u, n) ==
  \E v \in Users \ {u} : Registered(v) /\ user[v].nrc = n

-----------------------------------------------------------------------------
(* UserService.register: phone numbers are unique, so each user once.       *)
Register(u) ==
  /\ ~Registered(u)
  /\ user' = [user EXCEPT ![u] =
       [kyc |-> "UNVERIFIED", nrc |-> NoNrc, frozen |-> FALSE]]
  /\ UNCHANGED <<approved, ordered, request>>

(* Variant: the order gate lets the accounts pass that were not rejected.   *)
AuthenticateLoosely(r, op, u, n) ==
  /\ request[r] = NoRequest
  /\ Registered(u)
  /\ op = "submit" <=> n # NoNrc
  /\ op = "order" => user[u].kyc # "REJECTED" /\ ~user[u].frozen
  /\ request' = [request EXCEPT ![r] =
       [op |-> op, who |-> u, nrc |-> n,
        copy |-> IF op = "edit" THEN user[u] ELSE NoUser]]
  /\ UNCHANGED <<user, approved, ordered>>

(* An authenticated request: IsNotFrozen guards the submission of           *)
(* documents, CanTransact the placing of an order.                          *)
Authenticate(r, op, u, n) ==
  /\ request[r] = NoRequest
  /\ Registered(u)
  /\ op = "submit" <=> n # NoNrc
  /\ op = "submit" => ~user[u].frozen
  /\ op = "order" => user[u].kyc = "VERIFIED" /\ ~user[u].frozen
  /\ request' = [request EXCEPT ![r] =
       [op |-> op, who |-> u, nrc |-> n,
        copy |-> IF op = "edit" THEN user[u] ELSE NoUser]]
  /\ UNCHANGED <<user, approved, ordered>>

Runs(r, op) == request[r] # NoRequest /\ request[r].op = op

End(r) == request' = [request EXCEPT ![r] = NoRequest]

(* Variant: a verified user may replace the documents and stays verified.   *)
KycSubmitAgain(r) ==
  LET u == request[r].who
      n == request[r].nrc
  IN /\ Runs(r, "submit")
     /\ user[u].kyc # "PENDING"
     /\ ~HeldByAnother(u, n)
     /\ user' = [user EXCEPT ![u] =
          [@ EXCEPT !.nrc = n,
                    !.kyc = IF @ = "VERIFIED" THEN "VERIFIED" ELSE "PENDING"]]
     /\ End(r)
     /\ UNCHANGED <<approved, ordered>>

(* UserService.kyc_submit.  nrc_number is unique, so what the first look    *)
(* for another holder misses the save refuses.                              *)
KycSubmit(r) ==
  LET u == request[r].who
      n == request[r].nrc
  IN /\ Runs(r, "submit")
     /\ user[u].kyc \in {"UNVERIFIED", "REJECTED"}
     /\ ~HeldByAnother(u, n)
     /\ user' = [user EXCEPT ![u] =
          [kyc |-> "PENDING", nrc |-> n, frozen |-> @.frozen]]
     /\ End(r)
     /\ UNCHANGED <<approved, ordered>>

(* UserService.kyc_approve, one by one or in bulk from the admin.           *)
KycApprove(u) ==
  /\ Registered(u)
  /\ user[u].kyc = "PENDING"
  /\ user' = [user EXCEPT ![u].kyc = "VERIFIED"]
  /\ approved' = approved \cup {<<u, user[u].nrc>>}
  /\ UNCHANGED <<ordered, request>>

(* Variant: a rejection voids the card as one that was never handed in.     *)
KycRejectVoid(u) ==
  /\ Registered(u)
  /\ user[u].kyc = "PENDING"
  /\ user' = [user EXCEPT ![u] = [@ EXCEPT !.kyc = "REJECTED", !.nrc = "void"]]
  /\ UNCHANGED <<approved, ordered, request>>

KycReject(u) ==
  /\ Registered(u)
  /\ user[u].kyc = "PENDING"
  /\ user' = [user EXCEPT ![u].kyc = "REJECTED"]
  /\ UNCHANGED <<approved, ordered, request>>

FreezeAccount(u) ==
  /\ Registered(u)
  /\ user' = [user EXCEPT ![u].frozen = TRUE]
  /\ UNCHANGED <<approved, ordered, request>>

UnfreezeAccount(u) ==
  /\ Registered(u)
  /\ user' = [user EXCEPT ![u].frozen = FALSE]
  /\ UNCHANGED <<approved, ordered, request>>

(* Variant: nrc_number is not unique in the database.                       *)
EditProfileUnchecked(r) ==
  /\ Runs(r, "edit")
  /\ user' = [user EXCEPT ![request[r].who] = request[r].copy]
  /\ End(r)
  /\ UNCHANGED <<approved, ordered>>

(* MeView.patch: the names and the address change, and every column is      *)
(* written as it was when the request came in.  The card is refused if      *)
(* somebody else has it by now.                                             *)
EditProfile(r) ==
  LET u == request[r].who
  IN /\ Runs(r, "edit")
     /\ request[r].copy.nrc # NoNrc => ~HeldByAnother(u, request[r].copy.nrc)
     /\ user' = [user EXCEPT ![u] = request[r].copy]
     /\ End(r)
     /\ UNCHANGED <<approved, ordered>>

(* OrderService.create_order asks the same copy again (_assert_can_transact)*)
PlaceOrder(r) ==
  /\ Runs(r, "order")
  /\ ordered' = ordered \cup {request[r].who}
  /\ End(r)
  /\ UNCHANGED <<user, approved>>

(* The service refuses, or the request is lost.                             *)
GiveUp(r) ==
  /\ request[r] # NoRequest
  /\ End(r)
  /\ UNCHANGED <<user, approved, ordered>>

Next ==
  \/ \E u \in Users :
       \/ Register(u)
       \/ KycApprove(u)
       \/ KycReject(u)
       \/ FreezeAccount(u)
       \/ UnfreezeAccount(u)
       \/ \E r \in Requests, op \in {"submit", "edit", "order"},
             n \in Nrcs \cup {NoNrc} : Authenticate(r, op, u, n)
  \/ \E r \in Requests :
       \/ KycSubmit(r)
       \/ EditProfile(r)
       \/ PlaceOrder(r)
       \/ GiveUp(r)

Spec == Init /\ [][Next]_vars

-----------------------------------------------------------------------------
(* A verified account is one that an admin has approved with the very card  *)
(* it has now, whatever resubmissions, rejections and profile edits from    *)
(* before a review were written in between.                                 *)
VerifiedWasReviewed ==
  \A u \in Users :
    Registered(u) /\ user[u].kyc = "VERIFIED" => <<u, user[u].nrc>> \in approved

(* Two accounts never have one card, also not when a profile edit writes    *)
(* back a card that its owner has replaced and somebody else has taken.     *)
OneAccountPerCard ==
  \A u, v \in Users :
    /\ u # v
    /\ Registered(u) /\ Registered(v)
    /\ user[u].nrc # NoNrc
    => user[u].nrc # user[v].nrc

(* Nobody whose identity was never approved has placed an order.            *)
BuyersWereApproved ==
  \A u \in ordered : \E n \in Nrcs : <<u, n>> \in approved

(* The reviews of users, as Vetting has them: an order claims that its user *)
(* is cleared when the request is authenticated.                            *)
Reviewed == {u \in Users : \E n \in Nrcs : <<u, n>> \in approved}
Cleared ==
  {u \in Users : Registered(u) /\ user[u].kyc = "VERIFIED" /\ ~user[u].frozen}
Ordering ==
  {u \in Users : \E r \in Requests : Runs(r, "order") /\ request[r].who = u}

Clearance ==
  INSTANCE Vetting WITH Items <- Users, reviewed <- Reviewed,
                        offered <- Cleared, claims <- Ordering, used <- ordered

(* Whoever has placed an order was approved, and was verified and not       *)
(* frozen at some time after that, when the request came in; no freeze,     *)
(* resubmission or stale profile edit makes anybody a buyer.                *)
OrdersFollowReview == Clearance!Spec
=============================================================================
