--------------------------- MODULE PaymentsProofs ---------------------------
(***************************************************************************)
(* Proofs about Payments, for any numbers of attempts, handlers, workers,   *)
(* retries and crashes, and any total.                                      *)
(*                                                                          *)
(* None of it needs the webhook lock, whose key anybody may delete and      *)
(* which expires under its holder: what a handler was told of a payment     *)
(* stays true, it finds the row by a reference that is only saved together  *)
(* with the result of the call, and so after that result can no longer be   *)
(* written over the row; and the account takes money once, out of PENDING,  *)
(* whatever was queued how often.  What a handler was told of a failure     *)
(* need not be true, and nothing here uses that it is.                      *)
(***************************************************************************)
EXTENDS Payments, FiniteSetTheorems, TLAPS

(* The theorems about the escrow service, for the order's account.          *)
EP == INSTANCE EscrowProofs WITH Accounts <- {TheOrder}, Amounts <- {Total}

Paid == \E n \in Attempts : provider[n] = "paid"

AttemptSound(n) ==
  /\ result[n] = "none" => provider[n] = "none"
  /\ attempt[n].known => result[n] = "saved"
  /\ attempt[n].status = "SUCCESS" => attempt[n].known /\ PaidUnderRef(n)

(* A handler is told of payments that were made, and the copy it read of a  *)
(* confirmed row has a payment behind it.                                   *)
HandlerSound(h) ==
  /\ handler[h].n \in Attempts
  /\ handler[h].told = "success" => PaidUnderRef(handler[h].n)
  /\ handler[h].row # 0 =>
       /\ handler[h].row \in Attempts
       /\ attempt[handler[h].row].known
       /\ Ref(handler[h].row) = RefOf(h)
       /\ handler[h].seen = "SUCCESS" => PaidUnderRef(handler[h].row)
  /\ At(h, "dispatch") => Told(h, "success")

RunningFor(n) == {w \in HoldWorkers : running[w] = n}

(* A task that a worker runs is still in the queue.                         *)
TaskSound(n) ==
  /\ Cardinality(RunningFor(n)) <= queue[n]
  /\ queue[n] > 0 => Paid

MoneySound ==
  /\ ledger[TheOrder].received \in {0, Total}
  /\ ledger[TheOrder].received > 0 => Paid

(* The inductive invariant.                                                 *)
IInv ==
  /\ TypeOK
  /\ EP!IInv
  /\ \A n \in Attempts : AttemptSound(n)
  /\ \A h \in Handlers : ~At(h, "idle") => HandlerSound(h)
  /\ \A n \in Attempts : TaskSound(n)
  /\ MoneySound

-----------------------------------------------------------------------------
(* The account.                                                             *)

(* The order's operations, seen as calls of EscrowService.                  *)
LEMMA CallIsStep ==
  /\ E!CreateAccount(TheOrder) => EP!Next
  /\ E!HoldFunds(TheOrder, Total) => EP!Next
  /\ E!Freeze(TheOrder) => EP!Next
<1> USE DEF E!CanMove, EP!CanMove, E!Validate, EP!Validate, E!Transitions,
            EP!Transitions, E!EscrowState, EP!EscrowState, E!Quiet, EP!Quiet,
            E!Save, EP!Save, E!Post, EP!Post
<1>1. E!CreateAccount(TheOrder) => EP!CreateAccount(TheOrder)
  BY DEF E!CreateAccount, EP!CreateAccount, E!Absent, EP!Absent
<1>2. E!HoldFunds(TheOrder, Total) => EP!HoldFunds(TheOrder, Total)
  BY DEF E!HoldFunds, EP!HoldFunds, E!PostReceipt, EP!PostReceipt
<1>3. E!Freeze(TheOrder) => EP!Move(TheOrder)
  BY DEF E!Freeze, EP!Freeze, E!SetState, EP!SetState, EP!Move
<1> QED
  BY <1>1, <1>2, <1>3 DEF EP!Next

(* Each step of the payments is at most one call of the service.            *)
LEMMA StepIsServiceStep == [Next]_vars => [EP!Next]_(EP!vars)
<1> SUFFICES ASSUME [Next]_vars, ~UNCHANGED escrowVars PROVE EP!Next
  BY DEF escrowVars, EP!vars
<1>1. \/ E!CreateAccount(TheOrder) \/ E!HoldFunds(TheOrder, Total)
      \/ E!Freeze(TheOrder)
  BY DEF Next, vars, SubmitOrder, CancelOrder, AcknowledgeOrder, FreezeAccount,
         CheckCollection, CreateAttempt, CallProvider, SaveResult, BuyerDecides,
         ExpireLock, Receive, Poll, PollAnswer, Accept, HandlerStep, TakeLock,
         FindLocked, ReadAttempt, Apply, Dispatch, Unlock, Fail, Crash, TaskStep, SkipTask, GiveUpTask,
         StartTask, HoldFunds, HoldRefused, TaskFails
<1> QED
  BY <1>1, CallIsStep

LEMMA BooksKeep == EP!IInv /\ [Next]_vars => EP!IInv'
<1>1. {Total} \subseteq Int
  BY TotalAssumption
<1> QED
  BY <1>1, StepIsServiceStep, EP!BooksStep, ServiceAssumption

LEMMA BooksTyped == EP!IInv' => E!TypeOK'
BY DEF EP!IInv, EP!TypeOK, E!TypeOK, EP!Account, E!Account, EP!LedgerSums,
       E!LedgerSums, EP!Hold, E!Hold, EP!EscrowState, E!EscrowState, EP!Absent,
       E!Absent

(* Money arrives in an account that has had none, and only in HoldFunds.    *)
LEMMA Receipt ==
  ASSUME EP!IInv, E!HoldFunds(TheOrder, Total)
  PROVE  ledger'[TheOrder].received = Total
<1>1. account[TheOrder].state = "PENDING"
  BY DEF E!HoldFunds, E!CanMove, E!Validate, E!Transitions, E!EscrowState
<1>2. ledger[TheOrder].received = 0
  BY <1>1 DEF EP!IInv, EP!Books, EP!Unpaid
<1>3. ledger \in [{TheOrder} -> [received : Nat, refunded : Nat, released : Nat,
                                 credits : Nat, balanceAfter : Nat]]
  BY DEF EP!IInv, EP!TypeOK, EP!LedgerSums
<1> QED
  BY <1>2, <1>3, TotalAssumption DEF E!HoldFunds, E!PostReceipt, E!Post

-----------------------------------------------------------------------------
(* What no step takes back.                                                 *)

(* A payment, and the reference on the row.                                 *)
Grows ==
  \A n \in Attempts :
    /\ provider[n] = "paid" => provider'[n] = "paid"
    /\ attempt[n].known => attempt'[n].known

LEMMA GrowsStep ==
  ASSUME TypeOK, \A n \in Attempts : AttemptSound(n), [Next]_vars
  PROVE  Grows
<1>1. CASE UNCHANGED <<attempt, provider>>
  BY <1>1 DEF Grows
<1>2. ASSUME NEW n \in Attempts,
             CreateAttempt(n) \/ CallProvider(n) \/ SaveResult(n) \/ BuyerDecides(n)
      PROVE  Grows
  BY <1>2 DEF CreateAttempt, CallProvider, SaveResult, BuyerDecides, Grows,
              AttemptSound, TypeOK
<1>3. ASSUME NEW h \in Handlers, Apply(h) PROVE Grows
  BY <1>3 DEF Apply, Record, Grows, TypeOK
<1> QED
  BY <1>1, <1>2, <1>3
     DEF Next, vars, attemptVars, SubmitOrder, CancelOrder, AcknowledgeOrder,
         FreezeAccount, CheckCollection, ExpireLock, Receive, Poll, PollAnswer,
         Accept, HandlerStep, TakeLock, FindLocked, ReadAttempt, Dispatch, Unlock, Fail, Crash,
         TaskStep, SkipTask, GiveUpTask, StartTask, HoldFunds, HoldRefused,
         TaskFails

LEMMA PaymentsStay ==
  ASSUME Grows
  PROVE  /\ Paid => Paid'
         /\ \A n \in Attempts : PaidUnderRef(n) => PaidUnderRef(n)'
BY DEF Grows, Paid, PaidUnderRef, HasUnderRef

HandlerRecord ==
  [pc : {"idle", "polling", "received", "locked", "read", "dispatch", "unlock"},
   n : 0..MaxAttempts, told : {"nothing", "success", "failure", "other"},
   row : 0..MaxAttempts, seen : AttemptStatus]

(* A handler notes something, and the others do not notice.                 *)
LEMMA Noted ==
  ASSUME TypeOK, NEW h \in Handlers, NEW r \in HandlerRecord,
         handler' = [handler EXCEPT ![h] = r]
  PROVE  /\ handler' \in [Handlers -> HandlerRecord]
         /\ handler'[h] = r
         /\ handler' = [handler EXCEPT ![h] = handler'[h]]
BY DEF TypeOK, HandlerRecord

LEMMA WentOn ==
  ASSUME TypeOK, NEW h \in Handlers,
         NEW pc \in {"locked", "read", "dispatch", "unlock"}, Goto(h, pc)
  PROVE  /\ handler' \in [Handlers -> HandlerRecord]
         /\ handler' = [handler EXCEPT ![h] = handler'[h]]
         /\ handler'[h].pc = pc
         /\ handler'[h].n = handler[h].n /\ handler'[h].row = handler[h].row
         /\ handler'[h].told = handler[h].told
         /\ handler'[h].seen = handler[h].seen
BY DEF TypeOK, HandlerRecord, Goto

LEMMA IdleIsRecord == Idle \in HandlerRecord
BY AttemptsAssumption DEF Idle, Notes, HandlerRecord, AttemptStatus

(* A handler that keeps its notes keeps what they say.                      *)
LEMMA HandlersStay ==
  ASSUME Grows, NEW h \in Handlers, HandlerSound(h),
         handler'[h].n = handler[h].n, handler'[h].row = handler[h].row,
         handler'[h].told = handler[h].told, handler'[h].seen = handler[h].seen,
         At(h, "dispatch")' => At(h, "dispatch")
  PROVE  HandlerSound(h)'
BY PaymentsStay DEF HandlerSound, Grows, RefOf, Told

-----------------------------------------------------------------------------
(* The part of the invariant that the steps of the attempts, the handlers   *)
(* and the tasks each put at risk.                                          *)

AttemptStep ==
  \/ CheckCollection
  \/ \E n \in Attempts :
       CreateAttempt(n) \/ CallProvider(n) \/ SaveResult(n) \/ BuyerDecides(n)

WebhookStep ==
  \/ \E ref \in Refs : ExpireLock(ref)
  \/ \E n \in Attempts, h \in Handlers : Receive(h, n) \/ Poll(h, n)
  \/ \E h \in Handlers : HandlerStep(h) \/ Fail(h) \/ Crash(h)

OrderStep == SubmitOrder \/ CancelOrder \/ AcknowledgeOrder \/ FreezeAccount

HoldStep == \E w \in HoldWorkers : TaskStep(w) \/ TaskFails(w)

LEMMA AttemptsKeep ==
  ASSUME IInv, AttemptStep
  PROVE  IInv'
<1>1. /\ TypeOK /\ EP!IInv /\ Grows /\ EP!IInv' /\ E!TypeOK'
      /\ \A n \in Attempts : AttemptSound(n)
  <2>1. Next
    BY DEF AttemptStep, Next
  <2> QED
    BY <2>1, GrowsStep, BooksKeep, BooksTyped DEF IInv
<1>2. UNCHANGED <<escrowVars, order, handlerVars, taskVars>>
  BY DEF AttemptStep, CheckCollection, CreateAttempt, CallProvider, SaveResult,
         BuyerDecides
<1>3. TypeOK' /\ \A n \in Attempts : AttemptSound(n)'
  <2>1. CASE CheckCollection
    <3>1. IsFiniteSet(Unsuccessful)
      <4>1. IsFiniteSet(Attempts) /\ Unsuccessful \subseteq Attempts
        BY AttemptsAssumption, FS_Interval DEF Unsuccessful, Attempts
      <4> QED
        BY <4>1, FS_Subset
    <3>2. Cardinality(Unsuccessful) \in Nat
      BY <3>1, FS_CardinalityType
    <3>3. Cardinality(Unsuccessful) + 1 \in Attempts
      BY <2>1, <3>2, AttemptsAssumption DEF CheckCollection, Attempts
    <3> QED
      BY <1>1, <1>2, <2>1, <3>3
         DEF CheckCollection, TypeOK, handlerVars, taskVars, AttemptSound,
             PaidUnderRef, HasUnderRef
  <2>2. ASSUME NEW n \in Attempts, CreateAttempt(n)
        PROVE  TypeOK' /\ \A k \in Attempts : AttemptSound(k)'
    BY <1>1, <1>2, <2>2, PaymentsStay
       DEF CreateAttempt, TypeOK, handlerVars, taskVars, AttemptSound,
           AttemptStatus
  <2>3. ASSUME NEW n \in Attempts, CallProvider(n)
        PROVE  TypeOK' /\ \A k \in Attempts : AttemptSound(k)'
    BY <1>1, <1>2, <2>3, PaymentsStay
       DEF CallProvider, TypeOK, handlerVars, taskVars, AttemptSound
  <2>4. ASSUME NEW n \in Attempts, SaveResult(n)
        PROVE  TypeOK' /\ \A k \in Attempts : AttemptSound(k)'
    BY <1>1, <1>2, <2>4, PaymentsStay
       DEF SaveResult, TypeOK, handlerVars, taskVars, AttemptSound,
           AttemptStatus
  <2>5. ASSUME NEW n \in Attempts, BuyerDecides(n)
        PROVE  TypeOK' /\ \A k \in Attempts : AttemptSound(k)'
    BY <1>1, <1>2, <2>5, PaymentsStay
       DEF BuyerDecides, TypeOK, handlerVars, taskVars, AttemptSound
  <2> QED
    BY <2>1, <2>2, <2>3, <2>4, <2>5 DEF AttemptStep
<1>4. \A h \in Handlers : ~At(h, "idle")' => HandlerSound(h)'
  BY <1>1, <1>2, HandlersStay DEF IInv, handlerVars, At
<1>5. (\A n \in Attempts : TaskSound(n)') /\ MoneySound'
  BY <1>1, <1>2, PaymentsStay
     DEF IInv, TaskSound, RunningFor, MoneySound, escrowVars, taskVars
<1> QED
  BY <1>1, <1>3, <1>4, <1>5 DEF IInv

LEMMA WebhooksKeep ==
  ASSUME IInv, WebhookStep
  PROVE  IInv'
<1>1. /\ TypeOK /\ EP!IInv /\ Grows /\ EP!IInv' /\ E!TypeOK'
      /\ \A n \in Attempts : AttemptSound(n)
  <2>1. Next
    BY DEF WebhookStep, Next
  <2> QED
    BY <2>1, GrowsStep, BooksKeep, BooksTyped DEF IInv
<1>2. /\ UNCHANGED <<escrowVars, order, checked, result, provider, running, retries>>
      /\ Paid' = Paid
  BY DEF WebhookStep, ExpireLock, Receive, Poll, PollAnswer, Accept,
         HandlerStep, TakeLock, FindLocked, ReadAttempt, Apply, Dispatch, Unlock, Fail, Crash, attemptVars,
         taskVars, Paid
<1>3. MoneySound'
  BY <1>2 DEF IInv, MoneySound, escrowVars
<1> DEFINE Rest ==
      /\ TypeOK'
      /\ \A n \in Attempts : AttemptSound(n)' /\ TaskSound(n)'
      /\ \A h \in Handlers : ~At(h, "idle")' => HandlerSound(h)'
<1>4. ASSUME UNCHANGED <<attempt, queue>>
      PROVE  \A n \in Attempts : AttemptSound(n)' /\ TaskSound(n)'
  BY <1>1, <1>2, <1>4 DEF IInv, AttemptSound, PaidUnderRef, HasUnderRef, TaskSound,
              RunningFor
<1>5. ASSUME NEW h \in Handlers,
             handler' = [handler EXCEPT ![h] = handler'[h]],
             ~At(h, "idle")' => HandlerSound(h)'
      PROVE  \A g \in Handlers : ~At(g, "idle")' => HandlerSound(g)'
  <2> SUFFICES ASSUME NEW g \in Handlers, g # h, ~At(g, "idle")'
               PROVE  HandlerSound(g)'
    BY <1>5
  <2>1. handler'[g] = handler[g]
    BY <1>1, <1>5 DEF TypeOK
  <2> QED
    BY <1>1, <2>1, HandlersStay DEF IInv, At
<1>6. ASSUME NEW ref \in Refs, ExpireLock(ref) PROVE Rest
  <2>1. TypeOK'
    BY <1>1, <1>2, <1>6 DEF ExpireLock, TypeOK, attemptVars, taskVars
  <2>2. \A h \in Handlers : ~At(h, "idle")' => HandlerSound(h)'
    BY <1>1, <1>6, HandlersStay DEF ExpireLock, IInv, At
  <2> QED
    BY <1>4, <1>6, <2>1, <2>2 DEF ExpireLock, attemptVars, taskVars
<1>7. ASSUME NEW h \in Handlers, NEW n \in Attempts,
             NEW told \in {"success", "failure", "other"},
             told = "success" => PaidUnderRef(n), Accept(h, n, told)
      PROVE  Rest
  <2> DEFINE note == Notes("received", n, told)
  <2>1. UNCHANGED <<attempt, queue>>
    BY <1>7 DEF Accept, attemptVars, taskVars
  <2>2. handler' \in [Handlers -> HandlerRecord] => TypeOK'
    BY <1>1, <1>2, <1>7
       DEF Accept, Mark, TypeOK, HandlerRecord, attemptVars, taskVars
  <2>3. Idle \in HandlerRecord /\ note \in HandlerRecord
    BY IdleIsRecord, AttemptsAssumption
       DEF Notes, HandlerRecord, AttemptStatus, Attempts
  <2>4. PICK r \in {Idle, note} : handler' = [handler EXCEPT ![h] = r]
    BY <1>7 DEF Accept
  <2>5. /\ handler' \in [Handlers -> HandlerRecord]
        /\ handler'[h] = r
        /\ handler' = [handler EXCEPT ![h] = handler'[h]]
    BY <1>1, <2>3, <2>4, Noted
  <2>6. ~At(h, "idle")' => handler'[h] = note
    BY <2>4, <2>5 DEF At, Idle, Notes
  <2>7. ~At(h, "idle")' => HandlerSound(h)'
    BY <1>1, <1>7, <2>6, PaymentsStay DEF HandlerSound, At, Notes
  <2> QED
    BY <1>4, <1>5, <2>1, <2>2, <2>5, <2>7
<1>12. ASSUME NEW n \in Attempts, NEW h \in Handlers, Poll(h, n) PROVE Rest
  <2> DEFINE note == Notes("polling", n, "nothing")
  <2>1. UNCHANGED <<attempt, queue>>
    BY <1>12 DEF Poll, attemptVars, taskVars
  <2>2. note \in HandlerRecord
    BY IdleIsRecord, AttemptsAssumption
       DEF Notes, HandlerRecord, AttemptStatus, Attempts
  <2>3. /\ handler' \in [Handlers -> HandlerRecord]
        /\ handler'[h] = note
        /\ handler' = [handler EXCEPT ![h] = handler'[h]]
    BY <1>1, <1>12, <2>2, Noted DEF Poll
  <2>4. TypeOK'
    BY <1>1, <1>2, <1>12, <2>3 DEF Poll, TypeOK, HandlerRecord, attemptVars, taskVars
  <2>5. HandlerSound(h)'
    BY <2>3 DEF HandlerSound, At, Notes
  <2> QED
    BY <1>4, <1>5, <2>1, <2>3, <2>4, <2>5
<1>13. ASSUME NEW h \in Handlers, handler' = [handler EXCEPT ![h] = Idle],
              UNCHANGED <<attemptVars, event, lock, crashes, taskVars>>
       PROVE  Rest
  <2>1. /\ handler' \in [Handlers -> HandlerRecord]
        /\ handler' = [handler EXCEPT ![h] = handler'[h]]
        /\ handler'[h] = Idle
    BY <1>1, <1>13, IdleIsRecord, Noted
  <2>2. At(h, "idle")'
    BY <2>1 DEF At, Idle, Notes
  <2>3. TypeOK'
    BY <1>1, <1>2, <1>13, <2>1 DEF TypeOK, HandlerRecord, attemptVars, taskVars
  <2> QED
    BY <1>4, <1>5, <1>13, <2>1, <2>2, <2>3 DEF attemptVars, taskVars
<1>14. ASSUME NEW h \in Handlers,
              PollAnswer(h) \/ \E n \in Attempts : Receive(h, n)
       PROVE  Rest
  <2>1. CASE PollAnswer(h)
    <3>1. handler[h].n \in Attempts
      BY <2>1 DEF PollAnswer, IInv, HandlerSound, At
    <3>2. \/ \E told \in {"success", "failure", "other"} :
               /\ told = "success" => PaidUnderRef(handler[h].n)
               /\ Accept(h, handler[h].n, told)
          \/ /\ handler' = [handler EXCEPT ![h] = Idle]
             /\ UNCHANGED <<attemptVars, event, lock, crashes, taskVars>>
      BY <2>1 DEF PollAnswer
    <3> QED
      BY <1>7, <1>13, <3>1, <3>2
  <2>2. ASSUME NEW n \in Attempts, Receive(h, n) PROVE Rest
    <3>1. \E told \in {"success", "failure", "other"} :
            (told = "success" => PaidUnderRef(n)) /\ Accept(h, n, told)
      BY <2>2 DEF Receive
    <3> QED
      BY <1>7, <3>1
  <2> QED
    BY <1>14, <2>1, <2>2
<1>8. ASSUME NEW h \in Handlers,
             \/ TakeLock(h) \/ FindLocked(h) \/ ReadAttempt(h) \/ Unlock(h)
             \/ Fail(h) \/ Crash(h)
      PROVE  Rest
  <2>1. UNCHANGED <<attempt, queue>>
    BY <1>8 DEF TakeLock, FindLocked, ReadAttempt, Unlock, Fail, Crash,
                attemptVars, taskVars
  <2>2. CASE TakeLock(h)
    <3>1. TypeOK'
      <4>1. handler' \in [Handlers -> HandlerRecord]
        BY <1>1, <2>2, WentOn DEF TakeLock
      <4> QED
        BY <1>1, <1>2, <2>2, <4>1
           DEF TakeLock, TypeOK, HandlerRecord, attemptVars, taskVars
    <3>2. handler' = [handler EXCEPT ![h] = handler'[h]] /\ HandlerSound(h)'
      BY <1>1, <2>2, HandlersStay
         DEF TakeLock, Goto, TypeOK, IInv, At
    <3> QED
      BY <1>4, <1>5, <2>1, <3>1, <3>2
  <2>3. CASE FindLocked(h) \/ Unlock(h) \/ Fail(h) \/ Crash(h)
    <3>1. handler' = [handler EXCEPT ![h] = Idle]
      BY <2>3 DEF FindLocked, Unlock, Fail, Crash
    <3>2. /\ handler' \in [Handlers -> HandlerRecord]
          /\ handler' = [handler EXCEPT ![h] = handler'[h]]
          /\ handler'[h] = Idle
      BY <1>1, <3>1, IdleIsRecord, Noted
    <3>3. At(h, "idle")'
      BY <3>2 DEF At, Idle, Notes
    <3>4. event' \in [Refs ->
             {"none", "RECEIVED", "PROCESSED", "DUPLICATE", "ERROR"}]
      BY <1>1, <2>3 DEF FindLocked, Unlock, Fail, Crash, Mark, TypeOK
    <3>5. lock' \in [Refs -> Handlers \cup {Nobody}]
      BY <1>1, <2>3 DEF FindLocked, Unlock, Fail, Crash, TypeOK
    <3>6. crashes' \in 0..MaxCrashes
      BY <1>1, <2>3, AttemptsAssumption DEF FindLocked, Unlock, Fail, Crash, TypeOK
    <3>7. TypeOK'
      BY <1>1, <1>2, <2>1, <3>2, <3>4, <3>5, <3>6 DEF TypeOK, HandlerRecord
    <3> QED
      BY <1>4, <1>5, <2>1, <3>2, <3>3, <3>7
  <2>4. CASE ReadAttempt(h)
    <3>1. HandlerSound(h) /\ RefOf(h) = Ref(handler[h].n)
      BY <2>4 DEF ReadAttempt, IInv, At, RefOf
    <3>2. CASE Goto(h, "read")
      <4>1. TypeOK'
        <5>1. handler' \in [Handlers -> HandlerRecord]
          BY <1>1, <3>2, WentOn
        <5> QED
          BY <1>1, <1>2, <2>4, <5>1
             DEF ReadAttempt, TypeOK, HandlerRecord, attemptVars, taskVars
      <4>2. handler' = [handler EXCEPT ![h] = handler'[h]] /\ HandlerSound(h)'
        BY <1>1, <3>1, <3>2, HandlersStay DEF Goto, TypeOK, At
      <4> QED
        BY <1>4, <1>5, <2>1, <4>1, <4>2
    <3>3. ASSUME NEW m \in Matching(RefOf(h)),
                 handler' = [handler EXCEPT ![h] =
                   [pc |-> "read", n |-> @.n, told |-> @.told, row |-> m,
                    seen |-> attempt[m].status]]
          PROVE  Rest
      <4>1. m \in Attempts /\ attempt[m].known /\ Ref(m) = RefOf(h)
        BY <3>3 DEF Matching
      <4> DEFINE note == [pc |-> "read", n |-> handler[h].n,
                          told |-> handler[h].told, row |-> m,
                          seen |-> attempt[m].status]
      <4>2. handler[h] \in HandlerRecord /\ note \in HandlerRecord
        <5>1. handler[h] \in HandlerRecord
          BY <1>1 DEF TypeOK, HandlerRecord
        <5>2. attempt[m].status \in AttemptStatus
          BY <1>1, <4>1 DEF TypeOK
        <5> QED
          BY <4>1, <5>1, <5>2 DEF HandlerRecord, Attempts
      <4>3. handler' = [handler EXCEPT ![h] = note]
        BY <3>3
      <4>4. /\ handler' \in [Handlers -> HandlerRecord]
            /\ handler' = [handler EXCEPT ![h] = handler'[h]]
            /\ handler'[h] = note
        BY <1>1, <4>2, <4>3, Noted
      <4>5. TypeOK'
        BY <1>1, <1>2, <2>1, <2>4, <4>4
           DEF ReadAttempt, TypeOK, HandlerRecord
      <4>6. HandlerSound(h)'
        <5>1. /\ handler'[h].n = handler[h].n
              /\ handler'[h].told = handler[h].told
              /\ handler'[h].row = m /\ handler'[h].seen = attempt[m].status
              /\ handler'[h].pc = "read"
          BY <4>4
        <5>2. attempt[m].status = "SUCCESS" => PaidUnderRef(m)'
          BY <1>1, <4>1, PaymentsStay DEF AttemptSound
        <5> QED
          BY <1>1, <2>1, <3>1, <4>1, <5>1, <5>2, PaymentsStay
             DEF HandlerSound, RefOf, At
      <4> QED
        BY <1>4, <1>5, <2>1, <4>4, <4>5, <4>6
    <3> QED
      BY <2>4, <3>2, <3>3 DEF ReadAttempt
  <2> QED
    BY <1>8, <2>2, <2>3, <2>4
<1>9. ASSUME NEW h \in Handlers, Apply(h) PROVE Rest
  <2> DEFINE row == handler[h].row
  <2>1. HandlerSound(h)
    BY <1>9 DEF Apply, IInv, At
  <2>2. /\ handler' \in [Handlers -> HandlerRecord]
        /\ handler' = [handler EXCEPT ![h] = handler'[h]]
        /\ handler'[h].n = handler[h].n /\ handler'[h].row = row
        /\ handler'[h].told = handler[h].told
        /\ handler'[h].seen = handler[h].seen
        /\ At(h, "dispatch")' => Told(h, "success")
    <3>1. Goto(h, "unlock") \/ (Goto(h, "dispatch") /\ Told(h, "success"))
      BY <1>9 DEF Apply
    <3> QED
      BY <1>1, <3>1, WentOn DEF At
  <2>4. HandlerSound(h)'
    BY <1>1, <1>2, <2>1, <2>2, PaymentsStay
       DEF HandlerSound, RefOf, Grows, Told
  <2>5. \/ attempt' = attempt
        \/ /\ row # 0
           /\ \E status \in AttemptStatus :
                /\ attempt' = [attempt EXCEPT ![row].status = status]
                /\ status = "SUCCESS" =>
                     \/ handler[h].told = "success"
                     \/ handler[h].seen = "SUCCESS"
    BY <1>1, <1>9 DEF Apply, Record, Told, TypeOK, AttemptStatus
  <2>6. ASSUME row # 0
        PROVE  /\ handler[h].told = "success" => PaidUnderRef(row)
               /\ handler[h].seen = "SUCCESS" => PaidUnderRef(row)
    BY <2>1, <2>6 DEF HandlerSound, RefOf, PaidUnderRef, HasUnderRef
  <2>7. \A k \in Attempts : AttemptSound(k)'
    <3>1. CASE attempt' = attempt
      BY <1>1, <1>2, <3>1, PaymentsStay DEF AttemptSound
    <3>2. ASSUME NEW r, r = row, r # 0, NEW status \in AttemptStatus,
                 attempt' = [attempt EXCEPT ![r].status = status],
                 status = "SUCCESS" =>
                   handler[h].told = "success" \/ handler[h].seen = "SUCCESS"
          PROVE  \A k \in Attempts : AttemptSound(k)'
      <4>1. status = "SUCCESS" => PaidUnderRef(r)'
        <5>1. r \in Attempts
          BY <2>1, <3>2 DEF HandlerSound
        <5>2. status = "SUCCESS" => PaidUnderRef(r)
          BY <2>6, <3>2
        <5> QED
          BY <1>1, <5>1, <5>2, PaymentsStay
      <4>2. /\ r \in Attempts /\ attempt[r].known
            /\ attempt'[r] = [attempt[r] EXCEPT !.status = status]
            /\ \A k \in Attempts : k # r => attempt'[k] = attempt[k]
        BY <1>1, <2>1, <3>2 DEF HandlerSound, TypeOK
      <4>3. attempt'[r].status = status /\ attempt'[r].known
        BY <1>1, <4>2 DEF TypeOK
      <4> QED
        BY <1>1, <1>2, <4>1, <4>2, <4>3, PaymentsStay DEF AttemptSound
    <3> QED
      BY <2>5, <3>1, <3>2
  <2>8. attempt' \in [Attempts -> [status : AttemptStatus, known : BOOLEAN]]
    BY <1>1, <2>1, <2>5 DEF TypeOK, AttemptStatus, HandlerSound
  <2>9. TypeOK'
    <3>1. event' \in [Refs ->
             {"none", "RECEIVED", "PROCESSED", "DUPLICATE", "ERROR"}]
      BY <1>1, <1>9 DEF Apply, Record, Mark, TypeOK
    <3> QED
      BY <1>1, <1>2, <1>9, <2>2, <2>8, <3>1
         DEF Apply, TypeOK, HandlerRecord, taskVars
  <2>10. \A k \in Attempts : TaskSound(k)'
    BY <1>2, <1>9 DEF Apply, IInv, TaskSound, RunningFor, taskVars
  <2> QED
    BY <1>5, <2>2, <2>4, <2>7, <2>9, <2>10
<1>10. ASSUME NEW h \in Handlers, Dispatch(h) PROVE Rest
  <2> DEFINE row == handler[h].row
  <2>1. HandlerSound(h) /\ At(h, "dispatch")
    BY <1>10 DEF Dispatch, IInv, At
  <2>2. row \in Attempts /\ Paid
    BY <2>1 DEF HandlerSound, Told, Paid, PaidUnderRef, HasUnderRef
  <2>3. /\ handler' \in [Handlers -> HandlerRecord]
        /\ handler' = [handler EXCEPT ![h] = handler'[h]]
        /\ HandlerSound(h)'
    BY <1>1, <1>10, <2>1, WentOn, HandlersStay DEF Dispatch, At
  <2>4. TypeOK'
    <3>1. queue' \in [Attempts -> Nat]
      <4>1. queue \in [Attempts -> Nat] /\ queue' = [queue EXCEPT ![row] = @ + 1]
        BY <1>1, <1>10 DEF Dispatch, TypeOK
      <4> QED
        BY <2>2, <4>1
    <3> QED
      BY <1>1, <1>2, <1>10, <2>3, <3>1
         DEF Dispatch, TypeOK, HandlerRecord, attemptVars
  <2>5. \A k \in Attempts : AttemptSound(k)'
    BY <1>1, <1>10
       DEF Dispatch, attemptVars, AttemptSound, PaidUnderRef, HasUnderRef
  <2>6. \A k \in Attempts : queue'[k] \in {queue[k], queue[k] + 1}
    BY <1>1, <1>10 DEF Dispatch, TypeOK
  <2>7. \A k \in Attempts : Cardinality(RunningFor(k)) \in Nat
    BY WorkersAssumption, FS_Subset, FS_CardinalityType DEF RunningFor
  <2>8. \A k \in Attempts : TaskSound(k)'
    <3> SUFFICES ASSUME NEW k \in Attempts PROVE TaskSound(k)'
      OBVIOUS
    <3>1. RunningFor(k)' = RunningFor(k)
      BY <1>2 DEF RunningFor
    <3> QED
      BY <1>1, <1>2, <2>2, <2>6, <2>7, <3>1 DEF IInv, TaskSound, TypeOK
  <2> QED
    BY <1>5, <2>3, <2>4, <2>5, <2>8
<1>11. Rest
  BY <1>6, <1>8, <1>9, <1>10, <1>12, <1>14 DEF WebhookStep, HandlerStep
<1> QED
  BY <1>1, <1>3, <1>11 DEF IInv

LEMMA OrderKeeps ==
  ASSUME IInv, OrderStep
  PROVE  IInv'
<1>1. TypeOK /\ Grows /\ EP!IInv' /\ E!TypeOK'
  <2>1. Next
    BY DEF OrderStep, Next
  <2> QED
    BY <2>1, GrowsStep, BooksKeep, BooksTyped DEF IInv
<1>2. UNCHANGED <<attemptVars, handlerVars, taskVars>>
  BY DEF OrderStep, SubmitOrder, CancelOrder, AcknowledgeOrder, FreezeAccount
<1>3. TypeOK'
  BY <1>1, <1>2
     DEF OrderStep, SubmitOrder, CancelOrder, AcknowledgeOrder, FreezeAccount,
         TypeOK, attemptVars, handlerVars, taskVars
<1>4. ledger' = ledger
  BY DEF OrderStep, SubmitOrder, CancelOrder, AcknowledgeOrder, FreezeAccount,
         E!CreateAccount, E!Freeze, E!SetState, escrowVars
<1> QED
  BY <1>1, <1>2, <1>3, <1>4
     DEF IInv, AttemptSound, PaidUnderRef, HasUnderRef, HandlerSound, Told, RefOf, At,
         TaskSound, RunningFor, Paid, MoneySound, attemptVars, handlerVars, taskVars

(* The hold tasks.  A worker's task is in the queue until it is done.       *)
LEMMA RunningIsQueued ==
  ASSUME IInv
  PROVE  \A n \in Attempts :
           /\ Cardinality(RunningFor(n)) \in Nat
           /\ \A w \in HoldWorkers : running[w] = n =>
                Cardinality(RunningFor(n)) > 0 /\ queue[n] > 0 /\ Paid
<1> TAKE n \in Attempts
<1>1. IsFiniteSet(RunningFor(n))
  BY WorkersAssumption, FS_Subset DEF RunningFor
<1>2. Cardinality(RunningFor(n)) \in Nat
  BY <1>1, FS_CardinalityType
<1>3. ASSUME NEW w \in HoldWorkers, running[w] = n
      PROVE  Cardinality(RunningFor(n)) > 0
  <2>1. RunningFor(n) # {}
    BY <1>3 DEF RunningFor
  <2> QED
    BY <1>1, <1>2, <2>1, FS_EmptySet
<1> QED
  BY <1>2, <1>3 DEF IInv, TaskSound, TypeOK

(* A worker starts on n, or is done with what it ran.                       *)
LEMMA RunnerJoins ==
  ASSUME IInv, NEW w \in HoldWorkers, NEW n \in Attempts, running[w] = Nobody,
         running' = [running EXCEPT ![w] = n]
  PROVE  \A k \in Attempts :
           Cardinality(RunningFor(k)') =
             Cardinality(RunningFor(k)) + (IF k = n THEN 1 ELSE 0)
<1> TAKE k \in Attempts
<1>1. IsFiniteSet(RunningFor(k)) /\ w \notin RunningFor(k)
  BY WorkersAssumption, FS_Subset DEF RunningFor, Attempts
<1>2. RunningFor(k)' = IF k = n THEN RunningFor(k) \cup {w} ELSE RunningFor(k)
  BY <1>1 DEF RunningFor, IInv, TypeOK
<1>3. Cardinality(RunningFor(k)) \in Nat
  BY <1>1, FS_CardinalityType
<1>4. CASE k = n
  <2>1. Cardinality(RunningFor(k) \cup {w}) = Cardinality(RunningFor(k)) + 1
    BY <1>1, FS_AddElement
  <2> QED
    BY <1>2, <1>4, <2>1
<1>5. CASE k # n
  BY <1>2, <1>3, <1>5
<1> QED
  BY <1>4, <1>5

LEMMA RunnerLeaves ==
  ASSUME IInv, NEW w \in HoldWorkers, running[w] # Nobody,
         running' = [running EXCEPT ![w] = Nobody]
  PROVE  \A k \in Attempts :
           Cardinality(RunningFor(k)') =
             Cardinality(RunningFor(k)) - (IF k = running[w] THEN 1 ELSE 0)
<1> TAKE k \in Attempts
<1>1. IsFiniteSet(RunningFor(k)) /\ (w \in RunningFor(k) <=> k = running[w])
  BY WorkersAssumption, FS_Subset DEF RunningFor
<1>2. RunningFor(k)' = RunningFor(k) \ {w}
  BY WorkersAssumption DEF RunningFor, IInv, TypeOK, Attempts
<1> QED
  BY <1>1, <1>2, FS_RemoveElement, FS_CardinalityType

LEMMA HoldsKeep ==
  ASSUME IInv, HoldStep
  PROVE  IInv'
<1>1. TypeOK /\ EP!IInv /\ Grows /\ EP!IInv' /\ E!TypeOK'
  <2>1. Next
    BY DEF HoldStep, Next
  <2> QED
    BY <2>1, GrowsStep, BooksKeep, BooksTyped DEF IInv
<1>2. UNCHANGED <<attemptVars, handlerVars>>
  BY DEF HoldStep, TaskStep, SkipTask, GiveUpTask, StartTask, HoldFunds,
         HoldRefused, TaskFails
<1>3. /\ \A n \in Attempts : AttemptSound(n)'
      /\ \A h \in Handlers : ~At(h, "idle")' => HandlerSound(h)'
      /\ Paid' = Paid
  BY <1>2 DEF IInv, AttemptSound, PaidUnderRef, HasUnderRef, HandlerSound, Told,
              RefOf, At, Paid, attemptVars, handlerVars
<1> DEFINE Rest ==
      /\ TypeOK'
      /\ \A n \in Attempts : TaskSound(n)'
      /\ MoneySound'
<1>4. ASSUME order' \in {"PENDING_PAYMENT", "PAYMENT_RECEIVED", order},
             queue' \in [Attempts -> Nat],
             running' \in [HoldWorkers -> Attempts \cup {Nobody}],
             retries' \in 0..MaxRetries
      PROVE  TypeOK'
  BY <1>1, <1>2, <1>4 DEF TypeOK, attemptVars, handlerVars
<1>5. /\ queue \in [Attempts -> Nat]
      /\ running \in [HoldWorkers -> Attempts \cup {Nobody}]
      /\ retries \in 0..MaxRetries
  BY <1>1 DEF TypeOK
<1>6. \A n \in Attempts : Cardinality(RunningFor(n)) <= queue[n]
                          /\ (queue[n] > 0 => Paid)
  BY DEF IInv, TaskSound
<1>7. ASSUME UNCHANGED ledger PROVE MoneySound'
  BY <1>3, <1>7 DEF IInv, MoneySound
<1>8. ASSUME NEW w \in HoldWorkers, NEW n \in Attempts,
             SkipTask(w, n) \/ GiveUpTask(w, n)
      PROVE  Rest
  <2>1. queue[n] - Cardinality(RunningFor(n)) > 0
    BY <1>8 DEF SkipTask, GiveUpTask, Waiting, RunningFor
  <2>2. queue' = [queue EXCEPT ![n] = @ - 1]
        /\ UNCHANGED <<escrowVars, order, running, retries>>
    BY <1>8 DEF SkipTask, GiveUpTask, Ack
  <2>3. \A k \in Attempts : Cardinality(RunningFor(k)) \in Nat
    BY RunningIsQueued
  <2>4. queue' \in [Attempts -> Nat]
    BY <1>5, <2>1, <2>2, <2>3
  <2>5. \A k \in Attempts : TaskSound(k)'
    <3> TAKE k \in Attempts
    <3>1. RunningFor(k)' = RunningFor(k)
      BY <2>2 DEF RunningFor
    <3> QED
      BY <1>3, <1>5, <1>6, <2>1, <2>2, <2>3, <3>1 DEF TaskSound
  <2> QED
    BY <1>4, <1>5, <1>7, <2>2, <2>4, <2>5 DEF escrowVars
<1>9. ASSUME NEW w \in HoldWorkers, NEW n \in Attempts, StartTask(w, n)
      PROVE  Rest
  <2>1. queue[n] - Cardinality(RunningFor(n)) > 0
    BY <1>9 DEF StartTask, Waiting, RunningFor
  <2>2. /\ running[w] = Nobody
        /\ running' = [running EXCEPT ![w] = n]
        /\ UNCHANGED <<escrowVars, order, queue, retries>>
    BY <1>9 DEF StartTask
  <2>3. \A k \in Attempts : Cardinality(RunningFor(k)) \in Nat
    BY RunningIsQueued
  <2>4. \A k \in Attempts : TaskSound(k)'
    <3> TAKE k \in Attempts
    <3>1. Cardinality(RunningFor(k)') =
            Cardinality(RunningFor(k)) + (IF k = n THEN 1 ELSE 0)
      BY <2>2, RunnerJoins
    <3> QED
      BY <1>3, <1>5, <1>6, <2>1, <2>2, <2>3, <3>1 DEF TaskSound
  <2> QED
    BY <1>4, <1>5, <1>7, <2>2, <2>4 DEF escrowVars
<1>10. ASSUME NEW w \in HoldWorkers,
              HoldFunds(w) \/ HoldRefused(w) \/ TaskFails(w)
       PROVE  Rest
  <2> DEFINE n == running[w]
  <2>1. n \in Attempts /\ n # Nobody /\ running' = [running EXCEPT ![w] = Nobody]
    BY <1>5, <1>10 DEF HoldFunds, HoldRefused, TaskFails
  <2>2. /\ \A k \in Attempts : Cardinality(RunningFor(k)) \in Nat
        /\ Cardinality(RunningFor(n)) > 0 /\ queue[n] > 0 /\ Paid
    BY <2>1, RunningIsQueued
  <2>3. queue' = queue \/ queue' = [queue EXCEPT ![n] = @ - 1]
    BY <1>10 DEF HoldFunds, HoldRefused, TaskFails, Ack
  <2>4. queue' \in [Attempts -> Nat]
    BY <1>5, <2>1, <2>2, <2>3
  <2>5. \A k \in Attempts : TaskSound(k)'
    <3> TAKE k \in Attempts
    <3>1. Cardinality(RunningFor(k)') =
            Cardinality(RunningFor(k)) - (IF k = n THEN 1 ELSE 0)
      BY <2>1, RunnerLeaves
    <3> QED
      BY <1>3, <1>5, <1>6, <2>2, <2>3, <3>1 DEF TaskSound
  <2>6. retries' \in 0..MaxRetries
    BY <1>5, <1>10, AttemptsAssumption DEF HoldFunds, HoldRefused, TaskFails
  <2>7. order' \in {"PAYMENT_RECEIVED", order}
    BY <1>10 DEF HoldFunds, HoldRefused, TaskFails
  <2>8. running' \in [HoldWorkers -> Attempts \cup {Nobody}]
    BY <1>5, <2>1
  <2>9. MoneySound'
    <3>1. CASE HoldFunds(w)
      BY <1>1, <1>3, <2>2, <3>1, Receipt DEF HoldFunds, MoneySound
    <3>2. CASE HoldRefused(w) \/ TaskFails(w)
      BY <1>7, <3>2 DEF HoldRefused, TaskFails, escrowVars
    <3> QED
      BY <1>10, <3>1, <3>2
  <2> QED
    BY <1>4, <2>4, <2>5, <2>6, <2>7, <2>8, <2>9
<1>11. Rest
  BY <1>8, <1>9, <1>10 DEF HoldStep, TaskStep
<1> QED
  BY <1>1, <1>3, <1>11 DEF IInv

-----------------------------------------------------------------------------
LEMMA InitIInv == Init => IInv
<1> SUFFICES ASSUME Init PROVE IInv
  OBVIOUS
<1>1. EP!IInv /\ E!TypeOK
  <2>1. EP!Init
    BY DEF Init, E!Init, EP!Init, E!Absent, EP!Absent
  <2>2. {Total} \subseteq Int
    BY TotalAssumption
  <2>3. EP!IInv
    BY <2>1, <2>2, EP!BooksInit, ServiceAssumption
  <2>4. E!TypeOK
    BY DEF Init, E!Init, E!TypeOK, E!Account, E!LedgerSums, E!Hold, E!Absent
  <2> QED
    BY <2>3, <2>4
<1>2. TypeOK
  BY <1>1, AttemptsAssumption DEF Init, TypeOK, Idle, Notes, AttemptStatus
<1>3. \A n \in Attempts : TaskSound(n)
  <2> TAKE n \in Attempts
  <2>1. RunningFor(n) = {}
    BY WorkersAssumption DEF Init, RunningFor, Attempts
  <2> QED
    BY <2>1, FS_EmptySet DEF Init, TaskSound
<1>4. MoneySound
  BY DEF Init, E!Init, MoneySound
<1>5. /\ \A n \in Attempts : AttemptSound(n)
      /\ \A h \in Handlers : At(h, "idle")
  BY DEF Init, AttemptSound, At, Idle, Notes
<1> QED
  BY <1>1, <1>2, <1>3, <1>4, <1>5 DEF IInv

LEMMA NextKeepsIInv == IInv /\ [Next]_vars => IInv'
<1> SUFFICES ASSUME IInv, [Next]_vars PROVE IInv'
  OBVIOUS
<1>1. CASE UNCHANGED vars
  <2>1. EP!IInv' /\ E!TypeOK'
    BY BooksKeep, BooksTyped DEF IInv
  <2>2. TypeOK'
    BY <1>1, <2>1 DEF vars, attemptVars, handlerVars, taskVars, IInv, TypeOK
  <2> QED
    BY <1>1, <2>1, <2>2
       DEF vars, escrowVars, attemptVars, handlerVars, taskVars, IInv,
           AttemptSound, PaidUnderRef, HasUnderRef, HandlerSound, Told, RefOf, At,
           TaskSound, RunningFor, Paid, MoneySound
<1>2. CASE Next
  <2>1. OrderStep \/ AttemptStep \/ WebhookStep \/ HoldStep
    BY <1>2 DEF Next, OrderStep, AttemptStep, WebhookStep, HoldStep
  <2> QED
    BY <2>1, OrderKeeps, AttemptsKeep, WebhooksKeep, HoldsKeep
<1> QED
  BY <1>1, <1>2

(* The inductive invariant, for any numbers of attempts, handlers, workers, *)
(* repeated webhooks, redelivered tasks and crashes.                        *)
THEOREM PaymentsAreSound == Spec => []IInv
BY InitIInv, NextKeepsIInv, PTL DEF Spec

(* Types: among others, no acknowledgement is counted twice, that is the    *)
(* number of unacknowledged tasks never goes below zero.                    *)
THEOREM TypeCorrect == Spec => []TypeOK
<1>1. IInv => TypeOK
  BY DEF IInv
<1> QED
  BY <1>1, PaymentsAreSound, PTL

(* The total is held at most once, and never without a payment.             *)
THEOREM TotalIsHeldOnce == Spec => []HeldOnceForAPayment
<1>1. IInv => HeldOnceForAPayment
  BY DEF IInv, MoneySound, Paid, HeldOnceForAPayment
<1> QED
  BY <1>1, PaymentsAreSound, PTL

(* Only attempts through Airtel share a reference.                          *)
LEMMA SharedRefs ==
  ASSUME NEW m \in Attempts, NEW n \in Attempts, Ref(m) = Ref(n)
  PROVE  m = n \/ {m, n} \subseteq ViaAirtel
BY AttemptsAssumption DEF Ref, Attempts

(* Success means a payment: of this attempt, or of another through Airtel.  *)
THEOREM SuccessesHavePayment == Spec => []SuccessHasPayment
<1>1. IInv => SuccessHasPayment
  BY SharedRefs DEF IInv, AttemptSound, PaidUnderRef, HasUnderRef, SuccessHasPayment
<1> QED
  BY <1>1, PaymentsAreSound, PTL

(* The late save of the call's result never takes a confirmation back: only *)
(* a report of a failure or an old copy does.                               *)
THEOREM SavesKeepConfirmations == Spec => SaveKeepsConfirmation
<1> DEFINE Undone(n) ==
             attempt[n].status = "SUCCESS" /\ attempt'[n].status # "SUCCESS"
           Excused(n) ==
             \E h \in Handlers :
               /\ At(h, "read") /\ handler[h].row = n
               /\ \/ handler[h].told = "failure"
                  \/ handler[h].told = "other" /\ handler[h].seen # "SUCCESS"
<1>1. IInv /\ [Next]_vars => \A n \in Attempts : Undone(n) => Excused(n)
  <2> SUFFICES ASSUME IInv, [Next]_vars, NEW n \in Attempts, Undone(n)
               PROVE  Excused(n)
    OBVIOUS
  <2>1. ASSUME NEW m \in Attempts, CreateAttempt(m) \/ SaveResult(m) PROVE FALSE
    BY <2>1 DEF CreateAttempt, SaveResult, IInv, AttemptSound, TypeOK
  <2>2. ASSUME NEW h \in Handlers, Apply(h) PROVE Excused(n)
    BY <2>2 DEF Apply, Record, Told, IInv, TypeOK
  <2> QED
    BY <2>1, <2>2
       DEF Next, vars, attemptVars, SubmitOrder, CancelOrder, AcknowledgeOrder,
           FreezeAccount, CheckCollection, CallProvider, BuyerDecides,
           ExpireLock, Receive, Poll, PollAnswer, Accept, HandlerStep, TakeLock,
           FindLocked, ReadAttempt, Dispatch, Unlock, Fail, Crash, TaskStep,
           SkipTask, GiveUpTask, StartTask, HoldFunds, HoldRefused, TaskFails
<1> HIDE DEF Undone, Excused
<1>2. Spec => [][\A n \in Attempts : Undone(n) => Excused(n)]_vars
  BY <1>1, PaymentsAreSound, PTL DEF Spec
<1> QED
  BY <1>2 DEF Undone, Excused, SaveKeepsConfirmation

(* The account that payments and the order share is used as EscrowService   *)
(* allows, so that its money goes where FundsCustody says.                  *)
THEOREM PaymentsKeepCustody == Spec => EP!CustodySpec
<1>1. Init => EP!Init
  BY DEF Init, E!Init, EP!Init, E!Absent, EP!Absent
<1>2. {Total} \subseteq Int
  BY TotalAssumption
<1>3. EP!Spec => EP!CustodySpec
  BY <1>2, EP!EscrowKeepsCustody, ServiceAssumption
<1> QED
  BY <1>1, <1>3, StepIsServiceStep, PTL DEF Spec, EP!Spec

-----------------------------------------------------------------------------
(* The order and its account change together, although the task decides on  *)
(* a look at the order that takes no lock: an order that waits for its      *)
(* payment has an account without money that is PENDING or was frozen, and  *)
(* one that was paid has its total in the account.                          *)
OrderMatchesAccount ==
  /\ order = "DRAFT" => account[TheOrder].state = E!Absent
  /\ order = "PENDING_PAYMENT" =>
       /\ account[TheOrder].state \in {"PENDING", "FROZEN"}
       /\ ledger[TheOrder].received = 0
  /\ order \in {"PAYMENT_RECEIVED", "PROCESSING"} =>
       ledger[TheOrder].received = Total

LEMMA StepMatches ==
  IInv /\ OrderMatchesAccount /\ [Next]_vars => OrderMatchesAccount'
<1> SUFFICES ASSUME IInv, OrderMatchesAccount, [Next]_vars
             PROVE  OrderMatchesAccount'
  OBVIOUS
<1>1. CASE /\ UNCHANGED escrowVars
           /\ order' = order \/ CancelOrder \/ AcknowledgeOrder
  BY <1>1 DEF escrowVars, CancelOrder, AcknowledgeOrder, OrderMatchesAccount
<1>2. CASE SubmitOrder
  <2>1. /\ order' = "PENDING_PAYMENT" /\ ledger' = ledger
        /\ account[TheOrder].state = E!Absent
        /\ account' = [account EXCEPT ![TheOrder] =
                         [state |-> "PENDING", balance |-> 0, version |-> 0]]
    BY <1>2 DEF SubmitOrder, E!CreateAccount
  <2>2. ledger[TheOrder].received = 0
    BY <2>1 DEF IInv, EP!IInv, EP!Books, EP!Unpaid, EP!Absent, E!Absent
  <2>3. account'[TheOrder].state = "PENDING"
    BY <2>1 DEF IInv, TypeOK, E!TypeOK
  <2> QED
    BY <2>1, <2>2, <2>3 DEF OrderMatchesAccount
<1>3. CASE FreezeAccount
  <2>1. /\ order' = order /\ ledger' = ledger
        /\ E!CanMove(TheOrder, "FROZEN")
        /\ account' = [account EXCEPT ![TheOrder] =
             [state |-> "FROZEN", balance |-> account[TheOrder].balance,
              version |-> @.version + 1]]
    BY <1>3 DEF FreezeAccount, E!Freeze, E!SetState, E!Save
  <2>2. account'[TheOrder].state = "FROZEN" /\ account[TheOrder].state # E!Absent
    BY <2>1 DEF IInv, TypeOK, E!TypeOK, E!CanMove, E!EscrowState, E!Absent
  <2> QED
    BY <2>1, <2>2 DEF OrderMatchesAccount
<1>4. ASSUME NEW w \in HoldWorkers, HoldFunds(w) PROVE OrderMatchesAccount'
  <2>1. order' = "PAYMENT_RECEIVED" /\ ledger'[TheOrder].received = Total
    BY <1>4, Receipt DEF HoldFunds, IInv
  <2> QED
    BY <2>1 DEF OrderMatchesAccount
<1> QED
  BY <1>1, <1>2, <1>3, <1>4
     DEF Next, vars, CancelOrder, AcknowledgeOrder, CheckCollection,
         CreateAttempt, CallProvider, SaveResult, BuyerDecides, ExpireLock,
         Receive, Poll, PollAnswer, Accept, HandlerStep, TakeLock, FindLocked,
         ReadAttempt, Apply, Dispatch, Unlock, Fail, Crash, TaskStep, SkipTask, GiveUpTask,
         StartTask, HoldRefused, TaskFails

(* No interleaving of cancellations, freezes and duplicated tasks separates *)
(* the order from the money.                                                *)
THEOREM OrdersMatchAccounts == Spec => []OrderMatchesAccount
<1>1. Init => OrderMatchesAccount
  BY DEF Init, E!Init, OrderMatchesAccount
<1> QED
  BY <1>1, StepMatches, PaymentsAreSound, PTL DEF Spec

(* The safety half of QueuedPaymentReachesOrder: the broker forgets a hold  *)
(* task only when the order no longer waits for a payment, or its account   *)
(* was frozen.                                                              *)
THEOREM TasksAreNotDropped ==
  Spec => [][\A n \in Attempts :
               queue'[n] < queue[n] =>
                 order' # "PENDING_PAYMENT"
                 \/ account'[TheOrder].state = "FROZEN"]_vars
<1> DEFINE Kept == \A n \in Attempts :
             queue'[n] < queue[n] =>
               order' # "PENDING_PAYMENT" \/ account'[TheOrder].state = "FROZEN"
<1>1. IInv /\ OrderMatchesAccount /\ [Next]_vars => Kept
  <2> SUFFICES ASSUME IInv, OrderMatchesAccount, [Next]_vars,
                      NEW n \in Attempts, queue'[n] < queue[n],
                      order' = "PENDING_PAYMENT"
               PROVE  account'[TheOrder].state = "FROZEN"
    OBVIOUS
  <2>1. queue[n] \in Nat
    BY DEF IInv, TypeOK
  <2>2. CASE \E w \in HoldWorkers : HoldRefused(w)
    <3>1. /\ order = "PENDING_PAYMENT" /\ UNCHANGED account
          /\ ~E!CanMove(TheOrder, "HELD")
      BY <2>2 DEF HoldRefused, escrowVars
    <3>2. account[TheOrder].state # "PENDING"
      BY <3>1 DEF E!CanMove, E!Validate, E!Transitions, E!EscrowState
    <3> QED
      BY <3>1, <3>2 DEF OrderMatchesAccount
  <2>3. ASSUME NEW h \in Handlers, Dispatch(h) PROVE FALSE
    <3>1. queue' = [queue EXCEPT ![handler[h].row] = @ + 1]
      BY <2>3 DEF Dispatch
    <3> QED
      BY <2>1, <3>1 DEF IInv, TypeOK
  <2>4. CASE UNCHANGED queue
    BY <2>1, <2>4
  <2>5. \/ UNCHANGED queue
        \/ \E w \in HoldWorkers : HoldRefused(w)
        \/ \E h \in Handlers : Dispatch(h)
    BY DEF Next, vars, taskVars, SubmitOrder, CancelOrder, AcknowledgeOrder,
           FreezeAccount, CheckCollection, CreateAttempt, CallProvider,
           SaveResult, BuyerDecides, ExpireLock, Receive, Poll, PollAnswer,
           Accept, HandlerStep, TakeLock, FindLocked, ReadAttempt, Apply, Unlock, Fail, Crash, TaskStep,
           SkipTask, GiveUpTask, StartTask, HoldFunds, TaskFails
  <2> QED
    BY <2>2, <2>3, <2>4, <2>5
<1> HIDE DEF Kept
<1>2. Spec => [][Kept]_vars
  BY <1>1, PaymentsAreSound, OrdersMatchAccounts, PTL DEF Spec
<1> QED
  BY <1>2 DEF Kept
=============================================================================
