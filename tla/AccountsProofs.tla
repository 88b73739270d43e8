--------------------------- MODULE AccountsProofs ---------------------------
(***************************************************************************)
(* Proofs about Accounts, for any users, cards and requests.                *)
(*                                                                          *)
(* The three safety properties are not inductive: a profile edit writes     *)
(* back a row that it has read long ago, and an order is placed on a look   *)
(* at the user long ago.  What makes them safe is that approvals are never  *)
(* taken back, so that what a request has read of them stays true.          *)
(***************************************************************************)
EXTENDS Accounts, TLAPS

(* A row that may be there: who is under review has handed in a card, and   *)
(* who is verified was approved with it.                                    *)
Sound(u, row) ==
  /\ row.kyc = "PENDING" => row.nrc \in Nrcs
  /\ row.kyc = "VERIFIED" => <<u, row.nrc>> \in approved

(* What a request brings along from the time it was authenticated.          *)
Carries(r) ==
  /\ Registered(request[r].who)
  /\ request[r].op = "submit" => request[r].nrc \in Nrcs
  /\ request[r].op = "edit" =>
       request[r].copy \in User /\ Sound(request[r].who, request[r].copy)
  /\ request[r].op = "order" =>
       \E n \in Nrcs : <<request[r].who, n>> \in approved

(* The inductive invariant.                                                 *)
IInv ==
  /\ TypeOK
  /\ OneAccountPerCard
  /\ BuyersWereApproved
  /\ \A u \in Users : Registered(u) => Sound(u, user[u])
  /\ \A r \in Requests : request[r] # NoRequest => Carries(r)

-----------------------------------------------------------------------------
LEMMA InitIInv == Init => IInv
BY DEF Init, IInv, TypeOK, OneAccountPerCard, BuyersWereApproved, Registered

(* Approvals and users are only ever added, so that what a request carries  *)
(* stays true.                                                              *)
LEMMA CarriedStays ==
  ASSUME TypeOK, approved \subseteq approved',
         \A u \in Users : Registered(u) => Registered(u)'
  PROVE  /\ \A u, row : Sound(u, row) => Sound(u, row)'
         /\ \A r \in Requests :
              /\ request[r] # NoRequest
              /\ request'[r] = request[r]
              /\ Carries(r)
              => Carries(r)'
<1>1. \A r \in Requests : request[r] # NoRequest => request[r].who \in Users
  BY DEF TypeOK
<1> QED
  BY <1>1 DEF Sound, Carries

(* No row is written.                                                       *)
LEMMA RowsUnchanged ==
  ASSUME IInv, TypeOK', UNCHANGED <<user, approved>>, BuyersWereApproved',
         \A r \in Requests : request'[r] # NoRequest =>
           request'[r] = request[r] \/ Carries(r)'
  PROVE  IInv'
<1>1. \A u \in Users : Registered(u) => Registered(u)'
  BY DEF Registered
<1>2. \A r \in Requests : request'[r] # NoRequest => Carries(r)'
  BY <1>1, CarriedStays DEF IInv
<1> QED
  BY <1>2 DEF IInv, OneAccountPerCard, Registered, Sound

(* One row is written, with a card that is nobody else's.                   *)
LEMMA RowWritten ==
  ASSUME IInv, TypeOK', UNCHANGED ordered, approved \subseteq approved',
         NEW u \in Users, NEW row \in User,
         user' = [user EXCEPT ![u] = row],
         row.nrc = NoNrc \/ ~HeldByAnother(u, row.nrc),
         Sound(u, row)',
         \A r \in Requests : request'[r] \in {request[r], NoRequest}
  PROVE  IInv'
<1>1. user'[u] = row /\ \A v \in Users \ {u} : user'[v] = user[v]
  BY DEF IInv, TypeOK
<1>2. \A v \in Users : Registered(v) => Registered(v)'
  BY <1>1, AccountsAssumption DEF Registered
<1>3. OneAccountPerCard'
  BY <1>1 DEF IInv, OneAccountPerCard, HeldByAnother, Registered
<1>4. BuyersWereApproved'
  BY DEF IInv, BuyersWereApproved
<1>5. ASSUME NEW v \in Users, Registered(v)'
      PROVE  Sound(v, user[v])'
  BY <1>1, <1>2, <1>5, CarriedStays DEF IInv, Registered, Sound
<1>6. ASSUME NEW r \in Requests, request'[r] # NoRequest
      PROVE  Carries(r)'
  BY <1>2, <1>6, CarriedStays DEF IInv
<1> QED
  BY <1>3, <1>4, <1>5, <1>6 DEF IInv

-----------------------------------------------------------------------------
(* One lemma per action.                                                    *)

LEMMA RegisterKeepsIInv ==
  ASSUME IInv, NEW u \in Users, Register(u)
  PROVE  IInv'
<1> DEFINE row == [kyc |-> "UNVERIFIED", nrc |-> NoNrc, frozen |-> FALSE]
<1>1. row \in User /\ Sound(u, row)'
  BY DEF User, KycStatus, Sound
<1>2. TypeOK'
  BY <1>1 DEF IInv, TypeOK, Register
<1> QED
  BY <1>1, <1>2, RowWritten DEF Register

LEMMA AuthenticateKeepsIInv ==
  ASSUME IInv, NEW r \in Requests, NEW op \in {"submit", "edit", "order"},
         NEW u \in Users, NEW n \in Nrcs \cup {NoNrc},
         Authenticate(r, op, u, n)
  PROVE  IInv'
<1>1. Registered(u) /\ user[u] \in User /\ Sound(u, user[u])
  BY DEF IInv, TypeOK, Authenticate, Registered
<1>2. TypeOK'
  BY <1>1 DEF IInv, TypeOK, Authenticate
<1>3. /\ request'[r] = [op |-> op, who |-> u, nrc |-> n,
                        copy |-> IF op = "edit" THEN user[u] ELSE NoUser]
      /\ \A q \in Requests \ {r} : request'[q] = request[q]
  BY DEF IInv, TypeOK, Authenticate
<1>4. ASSUME op = "order"
      PROVE  \E m \in Nrcs : <<u, m>> \in approved
  <2>1. <<u, user[u].nrc>> \in approved
    BY <1>1, <1>4 DEF Authenticate, Sound
  <2> QED
    BY <2>1 DEF IInv, TypeOK
<1>5. Carries(r)'
  BY <1>1, <1>3, <1>4 DEF Authenticate, Carries, Sound, Registered
<1>6. BuyersWereApproved'
  BY DEF Authenticate, IInv, BuyersWereApproved
<1> QED
  BY <1>2, <1>3, <1>5, <1>6, RowsUnchanged DEF Authenticate

LEMMA KycSubmitKeepsIInv ==
  ASSUME IInv, NEW r \in Requests, KycSubmit(r)
  PROVE  IInv'
<1>1. PICK u \in Users, n \in Nrcs :
        request[r].who = u /\ request[r].nrc = n /\ Registered(u)
  BY DEF IInv, TypeOK, KycSubmit, Runs, Carries
<1>2. PICK row \in User :
        row = [kyc |-> "PENDING", nrc |-> n, frozen |-> user[u].frozen]
  BY <1>1 DEF IInv, TypeOK, Registered, User, KycStatus
<1>3. /\ user' = [user EXCEPT ![u] = row]
      /\ ~HeldByAnother(u, row.nrc)
  BY <1>1, <1>2 DEF KycSubmit
<1>4. Sound(u, row)'
  BY <1>2 DEF Sound
<1>5. TypeOK'
  BY <1>3 DEF IInv, TypeOK, KycSubmit, End
<1>6. \A q \in Requests : request'[q] \in {request[q], NoRequest}
  BY DEF IInv, TypeOK, KycSubmit, End
<1> QED
  BY <1>3, <1>4, <1>5, <1>6, RowWritten DEF KycSubmit

LEMMA KycApproveKeepsIInv ==
  ASSUME IInv, NEW u \in Users, KycApprove(u)
  PROVE  IInv'
<1>1. Registered(u) /\ user[u] \in User /\ Sound(u, user[u])
  BY DEF IInv, TypeOK, KycApprove, Registered
<1>2. user[u].nrc \in Nrcs
  BY <1>1 DEF KycApprove, Sound
<1>3. PICK row \in User : row = [user[u] EXCEPT !.kyc = "VERIFIED"]
  BY <1>1 DEF User, KycStatus
<1>4. user' = [user EXCEPT ![u] = row]
  BY <1>3 DEF KycApprove
<1>5. row.nrc = user[u].nrc /\ row.kyc = "VERIFIED"
  BY <1>1, <1>3 DEF User
<1>6. Sound(u, row)'
  BY <1>5 DEF KycApprove, Sound
<1>7. TypeOK'
  BY <1>2, <1>4 DEF IInv, TypeOK, KycApprove
<1>8. row.nrc = NoNrc \/ ~HeldByAnother(u, row.nrc)
  BY <1>1, <1>5 DEF IInv, OneAccountPerCard, HeldByAnother
<1> QED
  BY <1>4, <1>6, <1>7, <1>8, RowWritten DEF KycApprove

(* KycReject, FreezeAccount and UnfreezeAccount change neither the card nor *)
(* make anybody verified.                                                   *)
LEMMA SameCardKeepsIInv ==
  ASSUME IInv, NEW u \in Users, Registered(u), NEW row \in User,
         user' = [user EXCEPT ![u] = row],
         row.nrc = user[u].nrc,
         row.kyc \in {user[u].kyc, "REJECTED"},
         UNCHANGED <<approved, ordered, request>>
  PROVE  IInv'
<1>1. user[u] \in User /\ Sound(u, user[u])
  BY DEF IInv, TypeOK, Registered
<1>2. Sound(u, row)'
  BY <1>1 DEF Sound
<1>3. TypeOK'
  BY DEF IInv, TypeOK
<1>4. row.nrc = NoNrc \/ ~HeldByAnother(u, row.nrc)
  BY DEF IInv, OneAccountPerCard, HeldByAnother
<1> QED
  BY <1>2, <1>3, <1>4, RowWritten

LEMMA EditProfileKeepsIInv ==
  ASSUME IInv, NEW r \in Requests, EditProfile(r)
  PROVE  IInv'
<1>1. PICK u \in Users, row \in User :
        request[r].who = u /\ request[r].copy = row /\ Sound(u, row)
  BY DEF IInv, TypeOK, EditProfile, Runs, Carries
<1>2. /\ user' = [user EXCEPT ![u] = row]
      /\ row.nrc = NoNrc \/ ~HeldByAnother(u, row.nrc)
  BY <1>1 DEF EditProfile
<1>3. \A q \in Requests : request'[q] \in {request[q], NoRequest}
  BY DEF IInv, TypeOK, EditProfile, End
<1>4. TypeOK'
  BY <1>1, <1>2 DEF IInv, TypeOK, EditProfile, End
<1>5. Sound(u, row)'
  BY <1>1 DEF EditProfile, Sound
<1> QED
  BY <1>2, <1>3, <1>4, <1>5, RowWritten DEF EditProfile

LEMMA PlaceOrderKeepsIInv ==
  ASSUME IInv, NEW r \in Requests, PlaceOrder(r)
  PROVE  IInv'
<1>1. /\ request[r].who \in Users
      /\ \E n \in Nrcs : <<request[r].who, n>> \in approved
  BY DEF IInv, TypeOK, PlaceOrder, Runs, Carries
<1>2. TypeOK'
  BY <1>1 DEF IInv, TypeOK, PlaceOrder, End
<1>3. BuyersWereApproved'
  BY <1>1 DEF IInv, BuyersWereApproved, PlaceOrder
<1>4. \A q \in Requests : request'[q] \in {request[q], NoRequest}
  BY DEF IInv, TypeOK, PlaceOrder, End
<1> QED
  BY <1>2, <1>3, <1>4, RowsUnchanged DEF PlaceOrder

LEMMA GiveUpKeepsIInv ==
  ASSUME IInv, NEW r \in Requests, GiveUp(r)
  PROVE  IInv'
<1>1. TypeOK'
  BY DEF IInv, TypeOK, GiveUp, End
<1>2. BuyersWereApproved'
  BY DEF IInv, BuyersWereApproved, GiveUp
<1>3. \A q \in Requests : request'[q] \in {request[q], NoRequest}
  BY DEF IInv, TypeOK, GiveUp, End
<1> QED
  BY <1>1, <1>2, <1>3, RowsUnchanged DEF GiveUp

-----------------------------------------------------------------------------
LEMMA NextKeepsIInv == IInv /\ [Next]_vars => IInv'
<1> SUFFICES ASSUME IInv, [Next]_vars PROVE IInv'
  OBVIOUS
<1>1. CASE UNCHANGED vars
  <2>1. TypeOK' /\ BuyersWereApproved'
    BY <1>1 DEF vars, IInv, TypeOK, BuyersWereApproved
  <2> QED
    BY <1>1, <2>1, RowsUnchanged DEF vars
<1>2. ASSUME NEW u \in Users, Register(u) PROVE IInv'
  BY <1>2, RegisterKeepsIInv
<1>3. ASSUME NEW u \in Users, KycApprove(u) PROVE IInv'
  BY <1>3, KycApproveKeepsIInv
<1>4. ASSUME NEW u \in Users, KycReject(u) PROVE IInv'
  <2>1. user[u] \in User
    BY <1>4 DEF KycReject, IInv, TypeOK, Registered
  <2>2. PICK row \in User : row = [user[u] EXCEPT !.kyc = "REJECTED"]
    BY <2>1 DEF User, KycStatus
  <2>3. row.nrc = user[u].nrc /\ row.kyc = "REJECTED"
    BY <2>1, <2>2 DEF User
  <2> QED
    BY <1>4, <2>2, <2>3, SameCardKeepsIInv DEF KycReject
<1>5. ASSUME NEW u \in Users, FreezeAccount(u) \/ UnfreezeAccount(u)
      PROVE  IInv'
  <2>1. Registered(u) /\ UNCHANGED <<approved, ordered, request>>
    BY <1>5 DEF FreezeAccount, UnfreezeAccount
  <2>2. PICK frozen \in BOOLEAN :
          user' = [user EXCEPT ![u] = [user[u] EXCEPT !.frozen = frozen]]
    BY <1>5 DEF FreezeAccount, UnfreezeAccount
  <2>3. user[u] \in User
    BY <2>1 DEF IInv, TypeOK, Registered
  <2>4. PICK row \in User : row = [user[u] EXCEPT !.frozen = frozen]
    BY <2>3 DEF User
  <2>5. row.nrc = user[u].nrc /\ row.kyc = user[u].kyc
    BY <2>3, <2>4 DEF User
  <2> QED
    BY <2>1, <2>2, <2>4, <2>5, SameCardKeepsIInv
<1>6. ASSUME NEW u \in Users, NEW r \in Requests,
             NEW op \in {"submit", "edit", "order"},
             NEW n \in Nrcs \cup {NoNrc}, Authenticate(r, op, u, n)
      PROVE  IInv'
  BY <1>6, AuthenticateKeepsIInv
<1>7. ASSUME NEW r \in Requests, KycSubmit(r) PROVE IInv'
  BY <1>7, KycSubmitKeepsIInv
<1>8. ASSUME NEW r \in Requests, EditProfile(r) PROVE IInv'
  BY <1>8, EditProfileKeepsIInv
<1>9. ASSUME NEW r \in Requests, PlaceOrder(r) PROVE IInv'
  BY <1>9, PlaceOrderKeepsIInv
<1>10. ASSUME NEW r \in Requests, GiveUp(r) PROVE IInv'
  BY <1>10, GiveUpKeepsIInv
<1> QED
  BY <1>1, <1>2, <1>3, <1>4, <1>5, <1>6, <1>7, <1>8, <1>9, <1>10 DEF Next

(* The invariant holds of every user, card and request, in every state.     *)
THEOREM AccountsAreSound == Spec => []IInv
<1>1. Init => IInv
  BY InitIInv
<1>2. IInv /\ [Next]_vars => IInv'
  BY NextKeepsIInv
<1> QED
  BY <1>1, <1>2, PTL DEF Spec

(* The rows and the requests keep their types.                              *)
THEOREM AccountTypes == Spec => []TypeOK
<1>1. IInv => TypeOK
  BY DEF IInv
<1> QED
  BY <1>1, AccountsAreSound, PTL

(* A verified account was approved with the card it has: no edit, rejection *)
(* or resubmission, however stale, makes one of an account that was not.    *)
THEOREM VerifiedAreReviewed == Spec => []VerifiedWasReviewed
<1>1. IInv => VerifiedWasReviewed
  BY DEF IInv, VerifiedWasReviewed, Sound
<1> QED
  BY <1>1, AccountsAreSound, PTL

(* No two accounts ever have one card.                                      *)
THEOREM CardsAreUnique == Spec => []OneAccountPerCard
<1>1. IInv => OneAccountPerCard
  BY DEF IInv
<1> QED
  BY <1>1, AccountsAreSound, PTL

(* Who has placed an order was approved before.                             *)
THEOREM BuyersAreApproved == Spec => []BuyersWereApproved
<1>1. IInv => BuyersWereApproved
  BY DEF IInv
<1> QED
  BY <1>1, AccountsAreSound, PTL

-----------------------------------------------------------------------------
(* Clearance: every step is one of Vetting's, or a stutter.                 *)

(* No request is begun or ended that places an order.                       *)
LEMMA OffersChange ==
  ASSUME IInv', Ordering' = Ordering, ordered' = ordered,
         approved \subseteq approved'
  PROVE  Clearance!Next
<1>1. Cleared' \subseteq Reviewed'
  BY DEF IInv, TypeOK, Sound, Cleared, Reviewed, Registered, User
<1>2. Reviewed \subseteq Reviewed' /\ Reviewed' \in SUBSET Users
  BY DEF Reviewed
<1>3. Clearance!Decide(Reviewed')
  BY <1>1, <1>2 DEF Clearance!Decide
<1> QED
  BY <1>2, <1>3 DEF Clearance!Next

LEMMA RequestEnds ==
  ASSUME TypeOK, NEW r \in Requests, request[r] # NoRequest, End(r)
  PROVE  /\ request[r].who \in Users
         /\ Ordering' \in {Ordering, Ordering \ {request[r].who}}
         /\ request[r].op # "order" => Ordering' = Ordering
<1>1. /\ request[r].who \in Users /\ request'[r] = NoRequest
      /\ \A q \in Requests \ {r} : request'[q] = request[q]
  BY DEF TypeOK, End
<1> QED
  BY <1>1 DEF Ordering, Runs

LEMMA RequestBegins ==
  ASSUME IInv, NEW r \in Requests, NEW op \in {"submit", "edit", "order"},
         NEW u \in Users, NEW n \in Nrcs \cup {NoNrc}, Authenticate(r, op, u, n)
  PROVE  [Clearance!Next]_(Clearance!vars)
<1>1. UNCHANGED <<user, approved, ordered>>
  BY DEF Authenticate
<1>2. UNCHANGED <<Reviewed, Cleared>>
  BY <1>1 DEF Reviewed, Cleared, Registered
<1> DEFINE new == [op |-> op, who |-> u, nrc |-> n,
                   copy |-> IF op = "edit" THEN user[u] ELSE NoUser]
<1>3. /\ request[r] = NoRequest /\ new.op = op /\ new.who = u
      /\ \A q \in Requests \ {r} : request'[q] = request[q]
      /\ request'[r] = new
  BY DEF Authenticate, IInv, TypeOK
<1> HIDE DEF new
<1>4. CASE op # "order"
  <2>1. Ordering' = Ordering
    BY <1>3, <1>4 DEF Ordering, Runs
  <2> QED
    BY <1>1, <1>2, <2>1 DEF Clearance!vars
<1>5. CASE op = "order"
  <2>1. u \in Cleared
    BY <1>5 DEF Authenticate, Cleared
  <2>2. CASE new # NoRequest
    <3>1. Ordering' = Ordering \cup {u}
      BY <1>3, <1>5, <2>2 DEF Ordering, Runs
    <3> QED
      BY <1>1, <1>2, <2>1, <3>1 DEF Clearance!Claim, Clearance!Next
  <2>3. CASE new = NoRequest
    <3>1. Ordering' = Ordering
      BY <1>3, <2>3 DEF Ordering, Runs
    <3> QED
      BY <1>1, <1>2, <3>1 DEF Clearance!vars
  <2> QED
    BY <2>2, <2>3
<1> QED
  BY <1>4, <1>5

LEMMA StepIsVetted ==
  IInv /\ IInv' /\ [Next]_vars => [Clearance!Next]_(Clearance!vars)
<1> SUFFICES ASSUME IInv, IInv', [Next]_vars
             PROVE  [Clearance!Next]_(Clearance!vars)
  OBVIOUS
<1>1. ASSUME NEW u \in Users,
             \/ Register(u) \/ KycApprove(u) \/ KycReject(u)
             \/ FreezeAccount(u) \/ UnfreezeAccount(u)
      PROVE  Clearance!Next
  <2>1. /\ request' = request /\ ordered' = ordered /\ approved \subseteq approved'
    BY <1>1 DEF Register, KycApprove, KycReject, FreezeAccount, UnfreezeAccount
  <2> QED
    BY <2>1, OffersChange DEF Ordering, Runs
<1>2. ASSUME NEW r \in Requests, KycSubmit(r) \/ EditProfile(r)
      PROVE  Clearance!Next
  <2>1. /\ request[r] # NoRequest /\ request[r].op # "order" /\ End(r)
        /\ ordered' = ordered /\ approved' = approved
    BY <1>2 DEF KycSubmit, EditProfile, Runs
  <2> QED
    BY <2>1, RequestEnds, OffersChange DEF IInv
<1>3. ASSUME NEW r \in Requests, PlaceOrder(r)
      PROVE  Clearance!Next
  <2>1. /\ Runs(r, "order") /\ request[r] # NoRequest /\ End(r)
        /\ ordered' = ordered \cup {request[r].who}
        /\ UNCHANGED <<user, approved>>
    BY <1>3 DEF PlaceOrder, Runs
  <2>2. request[r].who \in Users /\ request[r].who \in Ordering
    BY <2>1, RequestEnds DEF IInv, Ordering
  <2>3. Clearance!Use(request[r].who)
    BY <2>1, <2>2, RequestEnds
       DEF IInv, Clearance!Use, Reviewed, Cleared, Registered
  <2> QED
    BY <2>2, <2>3 DEF Clearance!Next
<1>4. ASSUME NEW r \in Requests, GiveUp(r)
      PROVE  [Clearance!Next]_(Clearance!vars)
  <2>1. /\ request[r] # NoRequest /\ End(r)
        /\ UNCHANGED <<user, approved, ordered, Reviewed, Cleared>>
    BY <1>4 DEF GiveUp, Reviewed, Cleared, Registered
  <2>2. /\ request[r].who \in Users
        /\ Ordering' \in {Ordering, Ordering \ {request[r].who}}
    BY <2>1, RequestEnds DEF IInv
  <2> QED
    BY <2>1, <2>2 DEF Clearance!Drop, Clearance!Next, Clearance!vars
<1>5. CASE UNCHANGED vars
  BY <1>5
     DEF vars, Clearance!vars, Reviewed, Cleared, Registered, Ordering, Runs
<1> QED
  BY <1>1, <1>2, <1>3, <1>4, <1>5, RequestBegins DEF Next

(* Orders follow the review of their buyer, as Vetting says: nobody orders  *)
(* who was not verified and not frozen when the request came in, for any    *)
(* users, cards and requests.                                               *)
THEOREM OrdersAreVetted == Spec => OrdersFollowReview
<1>1. Init => Clearance!Init
  BY DEF Init, Clearance!Init, Reviewed, Cleared, Ordering, Registered, Runs
<1> QED
  BY <1>1, StepIsVetted, AccountsAreSound, PTL
     DEF Spec, OrdersFollowReview, Clearance!Spec
=============================================================================
